---- MODULE Spec2Model ----
(***************************************************************************)
(* Text Metrics Engine (src/text_analyzer.py, class TextAnalyzer).         *)
(*                                                                         *)
(* A document is a sequence of characters; a character is a one-character  *)
(* string, except the ideographic space, written "U+3000".  Every element  *)
(* of the sequence is one code point.                                      *)
(*                                                                         *)
(* Numbers.  Python floats are modelled by exact rationals: a ratio is a   *)
(* record [num, den]; den = 0 stands for the ZeroDivisionError that the    *)
(* division would raise.  A score rounded to one decimal is the integer    *)
(* number of tenths (100.0 is 1000).                                       *)
(***************************************************************************)
EXTENDS Integers, Sequences, FiniteSets, TLC

VARIABLES text, pc, report, raised, lang_oracle, sentiment_oracle, fault,
          stop_words, detector_seed, calls, word, syllables, threads,
          rows, last_id, clock, history,
          url, net, requested, extracted, raw, cleaned,
          cursors

\* the analyzer, its inputs and its callers
engine == <<text, pc, report, raised, lang_oracle, sentiment_oracle, fault,
            stop_words, detector_seed, calls, word, syllables, threads>>

\* the database file, the clock and the calls made on the DatabaseManager
storage == <<rows, last_id, clock, history>>

\* the URLAnalyzer: the URL given, what the network answers, the URL asked
\* of it, what extract_text_from_url returned; a text given to clean_text
\* and what it returned
web == <<url, net, requested, extracted, raw, cleaned>>

\* cursors: for each session inside save_analysis_result, the cursor of the
\* connection that call opened
vars == <<engine, storage, web, cursors>>

(***************************************************************************)
(* Characters                                                              *)
(***************************************************************************)
LowerSeq == <<"a","b","c","d","e","f","g","h","i","j","k","l","m",
              "n","o","p","q","r","s","t","u","v","w","x","y","z">>

UpperSeq == <<"A","B","C","D","E","F","G","H","I","J","K","L","M",
              "N","O","P","Q","R","S","T","U","V","W","X","Y","Z">>

LowerLetters == {LowerSeq[i] : i \in DOMAIN LowerSeq}

UpperLetters == {UpperSeq[i] : i \in DOMAIN UpperSeq}

Digits == {"0","1","2","3","4","5","6","7","8","9"}

\* string.whitespace, as used by punkt's _get_last_whitespace_index
AsciiWhitespace == {" ", "\t", "\n", "\r"}

\* what str.strip, str.split and the regex class \s treat as white space
Whitespace == AsciiWhitespace \cup {"U+3000"}

\* str.isalpha on one character
IsAlphaChar(c) == c \in LowerLetters \cup UpperLetters

\* str.lower on one character
LowerChar(c) ==
    IF c \in UpperLetters
    THEN LowerSeq[CHOOSE i \in DOMAIN UpperSeq : UpperSeq[i] = c]
    ELSE c

\* str.lower
Lower(s) == [i \in DOMAIN s |-> LowerChar(s[i])]

\* str.isalpha: non-empty and every character alphabetic
IsAlpha(s) == Len(s) > 0 /\ \A i \in DOMAIN s : IsAlphaChar(s[i])

(***************************************************************************)
(* Sequence helpers                                                        *)
(***************************************************************************)
\* s[a:b] with Python's 0-based offsets, a <= b
Slice(s, a, b) == [i \in 1..(b - a) |-> s[a + i]]

RECURSIVE Flatten(_)
Flatten(ss) == IF ss = <<>> THEN <<>> ELSE Head(ss) \o Flatten(Tail(ss))

RECURSIVE SumSeq(_)
SumSeq(s) == IF s = <<>> THEN 0 ELSE Head(s) + SumSeq(Tail(s))

Min(a, b) == IF a <= b THEN a ELSE b

Max(a, b) == IF a >= b THEN a ELSE b

\* len(s.rstrip())
RStripLen(s) ==
    LET keep == {i \in DOMAIN s : s[i] \notin Whitespace}
    IN  IF keep = {} THEN 0 ELSE CHOOSE i \in keep : \A j \in keep : j <= i

\* bool(s.strip())
StripNonEmpty(s) == \E i \in DOMAIN s : s[i] \notin Whitespace

\* str.split(): the maximal runs of non-white-space characters, in order
RECURSIVE SplitWhitespace(_)
SplitWhitespace(s) ==
    IF s = <<>> THEN <<>>
    ELSE IF Head(s) \in Whitespace THEN SplitWhitespace(Tail(s))
    ELSE LET stops == {i \in DOMAIN s : s[i] \in Whitespace}
             stop  == IF stops = {} THEN Len(s) + 1
                      ELSE CHOOSE i \in stops : \A j \in stops : i <= j
         IN  <<SubSeq(s, 1, stop - 1)>>
                 \o SplitWhitespace(SubSeq(s, stop, Len(s)))

(***************************************************************************)
(* Tokenizer: nltk.tokenize.sent_tokenize and word_tokenize, as called by  *)
(* the engine (punkt sentence splitter, then the Treebank word rules).     *)
(* Offsets are Python's: offset k is the character t[k + 1].               *)
(***************************************************************************)
\* PunktLanguageVars.sent_end_chars
SentEndChars == {".", "?", "!"}

\* PunktLanguageVars._re_non_word_chars
NonWordChars == {")", "\"", ";", "}", "]", "*", ":", "@", "'", "(", "{", "[",
                 "?", "!"}

\* start of the token after the white space that follows offset m, or -1
NextTokStart(t, m) ==
    LET after == {k \in (m + 1)..(Len(t) - 1) : t[k + 1] \notin Whitespace}
    IN  IF after = {} THEN -1 ELSE CHOOSE k \in after : \A j \in after : k <= j

\* period_context_re matches at offset m: a sentence-end character followed
\* by other punctuation, or by white space and some other token
IsPotentialEnd(t, m) ==
    /\ t[m + 1] \in SentEndChars
    /\ m + 1 < Len(t)
    /\ \/ t[m + 2] \in NonWordChars
       \/ t[m + 2] \in Whitespace /\ NextTokStart(t, m) # -1

\* the regex took its second alternative, so the group next_tok is set
HasNextTok(t, m) == t[m + 2] \notin NonWordChars

\* the offsets period_context_re.finditer yields, ascending, from offset k
RECURSIVE PotentialEnds(_, _)
PotentialEnds(t, k) ==
    IF k >= Len(t) THEN <<>>
    ELSE (IF IsPotentialEnd(t, k) THEN <<k>> ELSE <<>>) \o PotentialEnds(t, k + 1)

\* PunktSentenceTokenizer._get_last_whitespace_index (0 when there is none)
LastWhitespaceIndex(s) ==
    LET ws == {i \in 0..(Len(s) - 1) : s[i + 1] \in AsciiWhitespace}
    IN  IF ws = {} THEN 0 ELSE CHOOSE i \in ws : \A j \in ws : j <= i

\* PunktSentenceTokenizer._match_potential_end_contexts: the matches that are
\* yielded, each with the start of the word before it.  ps, pe are
\* previous_slice and pm is previous_match (-1 for None).
RECURSIVE EndContexts(_, _, _, _, _)
EndContexts(t, ms, ps, pe, pm) ==
    IF ms = <<>>
    THEN IF pm = -1 THEN <<>> ELSE <<[match |-> pm, start |-> ps]>>
    ELSE LET m    == Head(ms)
             lw   == LastWhitespaceIndex(Slice(t, pe, m))
             ials == IF lw # 0 THEN lw + pe + 1 ELSE ps
         IN  (IF pm # -1 /\ pe <= ials
              THEN <<[match |-> pm, start |-> ps]>> ELSE <<>>)
                 \o EndContexts(t, Tail(ms), ials, m, m)

\* a few of the abbreviation types of punkt's trained English parameters
AbbrevTypes == {<<"m","r">>, <<"d","r">>, <<"m","r","s">>, <<"s","t">>,
                <<"v","s">>, <<"i","n","c">>, <<"c","o">>, <<"j","r">>}

\* PunktSentenceTokenizer.text_contains_sentbreak on the context of match c.
\* "?" and "!" are tokens of their own and always break.  A period breaks
\* after an ordinary word; after an abbreviation it does not.  After an
\* initial (one letter) or a number the decision rests on the trained
\* orthographic statistics: no document of this model has that case.
TextContainsSentbreak(t, c) ==
    IF t[c.match + 1] # "." THEN TRUE
    ELSE LET prev == Slice(t, c.start, c.match)
         IN  /\ Lower(prev) \notin AbbrevTypes
             /\ ~(Len(prev) = 1 /\ IsAlphaChar(prev[1]))
             /\ ~(Len(prev) > 0 /\ \A i \in DOMAIN prev : prev[i] \in Digits)

\* PunktSentenceTokenizer._slices_from_text
RECURSIVE SlicesFromText(_, _, _)
SlicesFromText(t, cs, last_break) ==
    IF cs = <<>> THEN << <<last_break, RStripLen(t)>> >>
    ELSE LET m == Head(cs).match
         IN  IF TextContainsSentbreak(t, Head(cs))
             THEN << <<last_break, m + 1>> >>
                      \o SlicesFromText(t, Tail(cs),
                             IF HasNextTok(t, m) THEN NextTokStart(t, m)
                             ELSE m + 1)
             ELSE SlicesFromText(t, Tail(cs), last_break)

\* PunktSentenceTokenizer._realign_boundaries: with no closing quote or
\* bracket in a document nothing is realigned; empty slices are dropped
RECURSIVE RealignBoundaries(_, _)
RealignBoundaries(t, slices) ==
    IF slices = <<>> THEN <<>>
    ELSE (IF Head(slices)[1] < Head(slices)[2]
          THEN <<Slice(t, Head(slices)[1], Head(slices)[2])>> ELSE <<>>)
             \o RealignBoundaries(t, Tail(slices))

\* nltk.tokenize.sent_tokenize
sent_tokenize(t) ==
    RealignBoundaries(t,
        SlicesFromText(t, EndContexts(t, PotentialEnds(t, 0), 0, 0, -1), 0))

\* NLTKWordTokenizer.tokenize: "?" and "!" are set apart everywhere, a period
\* only when it ends the sentence and does not follow a period; then split()
TreebankTokenize(s) ==
    LET last == RStripLen(s)
        apart(i) == \/ s[i] \in {"?", "!"}
                    \/ s[i] = "." /\ i = last /\ i > 1 /\ s[i - 1] # "."
    IN  SplitWhitespace(Flatten(
            [i \in DOMAIN s |-> IF apart(i) THEN <<" ", s[i], " ">> ELSE <<s[i]>>]))

\* nltk.tokenize.word_tokenize: the sentences' tokens, in order
word_tokenize(t) ==
    LET sents == sent_tokenize(t)
    IN  Flatten([i \in DOMAIN sents |-> TreebankTokenize(sents[i])])

(***************************************************************************)
(* Numbers                                                                 *)
(***************************************************************************)
\* the float division n / d; den = 0 is Python's ZeroDivisionError
Div(n, d) == [num |-> n, den |-> d]

\* the integer 0 an empty denominator collection defaults to
Zero == [num |-> 0, den |-> 1]

IsZeroDivision(r) == r.den = 0

\* round(): n / d (d > 0) to the nearest integer, ties to the even one
Round(n, d) ==
    LET q == n \div d
        r == n - q * d
    IN  IF 2 * r < d THEN q
        ELSE IF 2 * r > d THEN q + 1
        ELSE IF q % 2 = 0 THEN q ELSE q + 1

(***************************************************************************)
(* TextAnalyzer.__init__                                                   *)
(***************************************************************************)
\* stopwords.words('english'), the entries that are purely alphabetic (an
\* entry with an apostrophe never equals a token that passed isalpha)
EnglishStopWords == {
    <<"i">>, <<"m","e">>, <<"m","y">>, <<"m","y","s","e","l","f">>,
    <<"w","e">>, <<"o","u","r">>, <<"o","u","r","s">>,
    <<"o","u","r","s","e","l","v","e","s">>, <<"y","o","u">>,
    <<"y","o","u","r">>, <<"y","o","u","r","s">>,
    <<"y","o","u","r","s","e","l","f">>,
    <<"y","o","u","r","s","e","l","v","e","s">>, <<"h","e">>,
    <<"h","i","m">>, <<"h","i","s">>, <<"h","i","m","s","e","l","f">>,
    <<"s","h","e">>, <<"h","e","r">>, <<"h","e","r","s">>,
    <<"h","e","r","s","e","l","f">>, <<"i","t">>, <<"i","t","s">>,
    <<"i","t","s","e","l","f">>, <<"t","h","e","y">>, <<"t","h","e","m">>,
    <<"t","h","e","i","r">>, <<"t","h","e","i","r","s">>,
    <<"t","h","e","m","s","e","l","v","e","s">>, <<"w","h","a","t">>,
    <<"w","h","i","c","h">>, <<"w","h","o">>, <<"w","h","o","m">>,
    <<"t","h","i","s">>, <<"t","h","a","t">>, <<"t","h","e","s","e">>,
    <<"t","h","o","s","e">>, <<"a","m">>, <<"i","s">>, <<"a","r","e">>,
    <<"w","a","s">>, <<"w","e","r","e">>, <<"b","e">>, <<"b","e","e","n">>,
    <<"b","e","i","n","g">>, <<"h","a","v","e">>, <<"h","a","s">>,
    <<"h","a","d">>, <<"h","a","v","i","n","g">>, <<"d","o">>,
    <<"d","o","e","s">>, <<"d","i","d">>, <<"d","o","i","n","g">>, <<"a">>,
    <<"a","n">>, <<"t","h","e">>, <<"a","n","d">>, <<"b","u","t">>,
    <<"i","f">>, <<"o","r">>, <<"b","e","c","a","u","s","e">>, <<"a","s">>,
    <<"u","n","t","i","l">>, <<"w","h","i","l","e">>, <<"o","f">>,
    <<"a","t">>, <<"b","y">>, <<"f","o","r">>, <<"w","i","t","h">>,
    <<"a","b","o","u","t">>, <<"a","g","a","i","n","s","t">>,
    <<"b","e","t","w","e","e","n">>, <<"i","n","t","o">>,
    <<"t","h","r","o","u","g","h">>, <<"d","u","r","i","n","g">>,
    <<"b","e","f","o","r","e">>, <<"a","f","t","e","r">>,
    <<"a","b","o","v","e">>, <<"b","e","l","o","w">>, <<"t","o">>,
    <<"f","r","o","m">>, <<"u","p">>, <<"d","o","w","n">>, <<"i","n">>,
    <<"o","u","t">>, <<"o","n">>, <<"o","f","f">>, <<"o","v","e","r">>,
    <<"u","n","d","e","r">>, <<"a","g","a","i","n">>,
    <<"f","u","r","t","h","e","r">>, <<"t","h","e","n">>,
    <<"o","n","c","e">>, <<"h","e","r","e">>, <<"t","h","e","r","e">>,
    <<"w","h","e","n">>, <<"w","h","e","r","e">>, <<"w","h","y">>,
    <<"h","o","w">>, <<"a","l","l">>, <<"a","n","y">>, <<"b","o","t","h">>,
    <<"e","a","c","h">>, <<"f","e","w">>, <<"m","o","r","e">>,
    <<"m","o","s","t">>, <<"o","t","h","e","r">>, <<"s","o","m","e">>,
    <<"s","u","c","h">>, <<"n","o">>, <<"n","o","r">>, <<"n","o","t">>,
    <<"o","n","l","y">>, <<"o","w","n">>, <<"s","a","m","e">>, <<"s","o">>,
    <<"t","h","a","n">>, <<"t","o","o">>, <<"v","e","r","y">>, <<"s">>,
    <<"t">>, <<"c","a","n">>, <<"w","i","l","l">>, <<"j","u","s","t">>,
    <<"d","o","n">>, <<"s","h","o","u","l","d">>, <<"n","o","w">>, <<"d">>,
    <<"l","l">>, <<"m">>, <<"o">>, <<"r","e">>, <<"v","e">>, <<"y">>,
    <<"a","i","n">>, <<"a","r","e","n">>, <<"c","o","u","l","d","n">>,
    <<"d","i","d","n">>, <<"d","o","e","s","n">>, <<"h","a","d","n">>,
    <<"h","a","s","n">>, <<"h","a","v","e","n">>, <<"i","s","n">>,
    <<"m","a">>, <<"m","i","g","h","t","n">>, <<"m","u","s","t","n">>,
    <<"n","e","e","d","n">>, <<"s","h","a","n">>,
    <<"s","h","o","u","l","d","n">>, <<"w","a","s","n">>,
    <<"w","e","r","e","n">>, <<"w","o","n">>, <<"w","o","u","l","d","n">>}

\* the detector left unseeded (DetectorFactory.seed stays None)
UnseededDetector == [seeded |-> FALSE, seed |-> 0]

\* DetectorFactory.seed = 0: langdetect draws from a generator seeded anew
\* with this value on every detect()
SeededDetector == [seeded |-> TRUE, seed |-> 0]

(***************************************************************************)
(* TextAnalyzer._get_basic_stats                                           *)
(***************************************************************************)
\* len(text.encode('utf-8')): bytes, not code points
CharacterCountBytes(t) ==
    SumSeq([i \in DOMAIN t |-> IF t[i] = "U+3000" THEN 3 ELSE 1])

\* len(text), in code points
CharacterCount(t) == Len(t)

\* text.replace(' ', '')
ReplaceSpaces(t) == SelectSeq(t, LAMBDA c : c # " ")

\* text.split('\n\n'): the pieces between non-overlapping "\n\n", found
\* left to right
RECURSIVE SplitBlankLine(_)
SplitBlankLine(t) ==
    LET at == {i \in 1..(Len(t) - 1) : t[i] = "\n" /\ t[i + 1] = "\n"}
    IN  IF at = {} THEN <<t>>
        ELSE LET i == CHOOSE k \in at : \A j \in at : k <= j
             IN  <<SubSeq(t, 1, i - 1)>>
                     \o SplitBlankLine(SubSeq(t, i + 2, Len(t)))

\* len(text.split('\n\n')): the pieces, empty ones too
ParagraphCountUnfiltered(t) == Len(SplitBlankLine(t))

\* len([p for p in text.split('\n\n') if p.strip()])
ParagraphCount(t) == Len(SelectSeq(SplitBlankLine(t), StripNonEmpty))

\* len(words) / len(sentences), whatever the sentences
AverageWordsPerSentenceUnguarded(words, sentences) ==
    Div(Len(words), Len(sentences))

\* len(words) / len(sentences) if sentences else 0
AverageWordsPerSentence(words, sentences) ==
    IF sentences # <<>> THEN Div(Len(words), Len(sentences)) ELSE Zero

\* sum(len(word) for word in words) / len(words) if words else 0
AverageCharactersPerWord(words) ==
    IF words # <<>>
    THEN Div(SumSeq([i \in DOMAIN words |-> Len(words[i])]), Len(words))
    ELSE Zero

get_basic_stats(t) ==
    LET words     == word_tokenize(Lower(t))
        sentences == sent_tokenize(t)
    IN  [character_count            |-> CharacterCount(t),
         character_count_no_spaces  |-> Len(ReplaceSpaces(t)),
         word_count                 |-> Len(words),
         sentence_count             |-> Len(sentences),
         paragraph_count            |-> ParagraphCount(t),
         average_words_per_sentence |-> AverageWordsPerSentence(words, sentences),
         average_characters_per_word |-> AverageCharactersPerWord(words)]

(***************************************************************************)
(* TextAnalyzer._count_syllables and _calculate_readability                *)
(***************************************************************************)
\* vowels = "aeiouy"
Vowels == {"a", "e", "i", "o", "u", "y"}

\* the loop over the characters: count, with on_vowel the flag so far
RECURSIVE VowelGroups(_, _)
VowelGroups(w, on_vowel) ==
    IF w = <<>> THEN 0
    ELSE LET is_vowel == Head(w) \in Vowels
         IN  (IF is_vowel /\ ~on_vowel THEN 1 ELSE 0)
                 + VowelGroups(Tail(w), is_vowel)

\* the count without "if count == 0: count = 1"
count_syllables_no_floor(w) ==
    LET lw    == Lower(w)
        count == VowelGroups(lw, FALSE)
    IN  IF Len(lw) > 0 /\ lw[Len(lw)] = "e" THEN count - 1 ELSE count

count_syllables(w) ==
    LET lw     == Lower(w)
        count  == VowelGroups(lw, FALSE)
        count2 == IF Len(lw) > 0 /\ lw[Len(lw)] = "e" THEN count - 1 ELSE count
    IN  IF count2 = 0 THEN 1 ELSE count2

\* the two averages exchanged: 1.015 * (S / W) and 84.6 * (Y / S)
FleschFormulaSwapped(W, S, Y) ==
    Div(206835 * S * W - 1015 * S * S - 84600 * Y * W, 1000 * S * W)

\* 206.835 - 1.015 * (W / S) - 84.6 * (Y / W), as a ratio over 1000 * S * W
FleschFormula(W, S, Y) ==
    Div(206835 * S * W - 1015 * W * W - 84600 * Y * S, 1000 * S * W)

\* the score left as the formula gives it
ClampMissing(r) == r

\* max(0, min(100, flesch_score))
Clamp(r) ==
    IF IsZeroDivision(r) THEN r
    ELSE IF r.num < 0 THEN Zero
    ELSE IF r.num > 100 * r.den THEN Div(100, 1)
    ELSE r

\* the Flesch score before rounding
FleschScore(words, sentences, syl) ==
    IF sentences # <<>> /\ words # <<>>
    THEN Clamp(FleschFormula(Len(words), Len(sentences), syl))
    ELSE Zero

\* flesch_score >= k
AtLeast(r, k) == r.num >= k * r.den

\* the if / elif chain; labels in the source: very easy, easy, fairly easy,
\* standard, fairly difficult, difficult, very difficult
ReadabilityLevel(score) ==
    IF AtLeast(score, 90) THEN "very_easy"
    ELSE IF AtLeast(score, 80) THEN "easy"
    ELSE IF AtLeast(score, 70) THEN "fairly_easy"
    ELSE IF AtLeast(score, 60) THEN "standard"
    ELSE IF AtLeast(score, 50) THEN "fairly_difficult"
    ELSE IF AtLeast(score, 30) THEN "difficult"
    ELSE "very_difficult"

\* the except branch; its label in the source says "could not be computed"
ReadabilityFallback ==
    [flesch_score |-> 0, readability_level |-> "could_not_compute",
     syllable_count |-> 0]

calculate_readability(t) ==
    LET sentences == sent_tokenize(t)
        words     == word_tokenize(Lower(t))
        syl       == SumSeq([i \in DOMAIN words |-> count_syllables(words[i])])
        score     == FleschScore(words, sentences, syl)
    IN  IF IsZeroDivision(score) THEN ReadabilityFallback
        ELSE [flesch_score      |-> Round(10 * score.num, score.den),
              readability_level |-> ReadabilityLevel(score),
              syllable_count    |-> syl]

(***************************************************************************)
(* Frequency tables: _get_word_frequency and _analyze_characters           *)
(***************************************************************************)
\* the keys of the dict built by the counting loop, in insertion order
RECURSIVE KeysInOrder(_, _)
KeysInOrder(xs, seen) ==
    IF xs = <<>> THEN <<>>
    ELSE IF Head(xs) \in seen THEN KeysInOrder(Tail(xs), seen)
    ELSE <<Head(xs)>> \o KeysInOrder(Tail(xs), seen \cup {Head(xs)})

Occurrences(xs, x) == Cardinality({i \in DOMAIN xs : xs[i] = x})

\* dict.items() after the counting loop: <<key, count>> in insertion order
CountItems(xs) ==
    LET keys == KeysInOrder(xs, {})
    IN  [i \in DOMAIN keys |-> <<keys[i], Occurrences(xs, keys[i])>>]

\* sorted(items, key=lambda x: x[1])[::-1]: reversing an ascending sort also
\* reverses the items with equal counts
RECURSIVE SortedAscendingReversed(_, _)
SortedAscendingReversed(items, placed) ==
    IF items = <<>> THEN placed
    ELSE LET x == Head(items)
             k == Cardinality({i \in DOMAIN placed : placed[i][2] > x[2]})
         IN  SortedAscendingReversed(Tail(items),
                 SubSeq(placed, 1, k) \o <<x>> \o SubSeq(placed, k + 1, Len(placed)))

\* sorted(items, key=lambda x: x[1], reverse=True): Python's sort is stable,
\* also under reverse=True, so an item goes behind every item already placed
\* whose count is at least its own
RECURSIVE SortedByCount(_, _)
SortedByCount(items, placed) ==
    IF items = <<>> THEN placed
    ELSE LET x == Head(items)
             k == Cardinality({i \in DOMAIN placed : placed[i][2] >= x[2]})
         IN  SortedByCount(Tail(items),
                 SubSeq(placed, 1, k) \o <<x>> \o SubSeq(placed, k + 1, Len(placed)))

\* the slice [:10]
TopN == 10

MostCommon(items) ==
    LET sorted_items == SortedByCount(items, <<>>)
    IN  SubSeq(sorted_items, 1, Min(TopN, Len(sorted_items)))

\* the filter without "word not in self.stop_words"
FilterWordsKeepStops(words, stops) ==
    SelectSeq(words, LAMBDA w : IsAlpha(w))

\* [word for word in words if word.isalpha() and word not in self.stop_words]
FilterWords(words, stops) ==
    SelectSeq(words, LAMBDA w : IsAlpha(w) /\ w \notin stops)

get_word_frequency(t, stops) ==
    LET words == FilterWords(word_tokenize(Lower(t)), stops)
        items == CountItems(words)
    IN  [unique_words         |-> Len(items),
         most_common_words    |-> MostCommon(items),
         total_words_analyzed |-> Len(words)]

\* the letters counted as they stand in the text
LettersOfNoFold(t) == SelectSeq(t, IsAlphaChar)

\* the characters counted by the loop, case-folded, in text order
LettersOf(t) == Lower(SelectSeq(t, IsAlphaChar))

analyze_characters(t) ==
    LET items == CountItems(LettersOf(t))
    IN  [total_letters       |-> SumSeq([i \in DOMAIN items |-> items[i][2]]),
         unique_letters      |-> Len(items),
         most_common_letters |-> MostCommon(items),
         letter_distribution |-> items]

(***************************************************************************)
(* TextAnalyzer._analyze_sentences                                         *)
(***************************************************************************)
\* the first length taken for the shortest
SeqFirst(s) == s[1]

SeqMin(s) == CHOOSE x \in {s[i] : i \in DOMAIN s} : \A j \in DOMAIN s : x <= s[j]

SeqMax(s) == CHOOSE x \in {s[i] : i \in DOMAIN s} : \A j \in DOMAIN s : x >= s[j]

analyze_sentences(t) ==
    LET sentences == sent_tokenize(t)
        sentence_lengths ==
            [i \in DOMAIN sentences |-> Len(word_tokenize(sentences[i]))]
    IN  IF sentence_lengths = <<>>
        THEN [average_sentence_length |-> Zero,
              shortest_sentence       |-> 0,
              longest_sentence        |-> 0,
              sentence_lengths        |-> <<>>]
        ELSE [average_sentence_length |->
                  Div(SumSeq(sentence_lengths), Len(sentence_lengths)),
              shortest_sentence       |-> SeqMin(sentence_lengths),
              longest_sentence        |-> SeqMax(sentence_lengths),
              sentence_lengths        |-> sentence_lengths]

(***************************************************************************)
(* The language and sentiment libraries: _detect_language and              *)
(* _analyze_sentiment.  What langdetect and TextBlob answer for a text is  *)
(* an input of the model: lang is a language code or "raise", and sent is  *)
(* [raises, polarity, subjectivity] with the two scores in 1/10000.        *)
(***************************************************************************)
\* the keys of lang_names
KnownLanguages == {"en", "ja", "es", "fr", "de", "it", "pt", "ru", "zh", "ko"}

\* lang_names.get(lang, 'code: ' + lang)
LanguageName(lang) ==
    IF lang \in KnownLanguages THEN <<"name", lang>> ELSE <<"code", lang>>

\* with the generator seeded detect() answers the same for the same text;
\* unseeded, its answer on an ambiguous text varies from call to call
Detect(answer, seed, draw) ==
    IF answer = "raise" \/ seed.seeded THEN answer ELSE draw

\* the except branch building its block from the failed answer
detect_language_no_fallback(answer, seed, draw) ==
    LET lang == Detect(answer, seed, draw)
    IN  [detected_language |-> lang, language_name |-> LanguageName(lang)]

detect_language(answer, seed, draw) ==
    LET lang == Detect(answer, seed, draw)
    IN  IF lang = "raise"
        THEN [detected_language |-> "unknown",
              language_name     |-> <<"not_detected">>]
        ELSE [detected_language |-> lang,
              language_name     |-> LanguageName(lang)]

\* the thresholds on the unrounded polarity
SentimentLabel(polarity) ==
    IF polarity > 1000 THEN "positive"
    ELSE IF polarity < -1000 THEN "negative"
    ELSE "neutral"

\* polarity and subjectivity in thousandths, polarity_percentage in tenths
analyze_sentiment(answer) ==
    IF answer.raises
    THEN [polarity |-> 0, subjectivity |-> 0,
          sentiment |-> "could_not_analyze", polarity_percentage |-> 500]
    ELSE [polarity            |-> Round(answer.polarity, 10),
          subjectivity        |-> Round(answer.subjectivity, 10),
          sentiment           |-> SentimentLabel(answer.polarity),
          polarity_percentage |-> Round(answer.polarity + 10000, 20)]

(***************************************************************************)
(* TextAnalyzer.analyze_text                                               *)
(***************************************************************************)
analyze_text(t, stops, seed, lang, sent, draw) ==
    [basic_stats        |-> get_basic_stats(t),
     language_detection |-> detect_language(lang, seed, draw),
     sentiment_analysis |-> analyze_sentiment(sent),
     readability_score  |-> calculate_readability(t),
     word_frequency     |-> get_word_frequency(t, stops),
     sentence_analysis  |-> analyze_sentences(t),
     character_analysis |-> analyze_characters(t)]

\* a ZeroDivisionError outside a try block leaves analyze_text as an exception
Raises(r) ==
    \/ IsZeroDivision(r.basic_stats.average_words_per_sentence)
    \/ IsZeroDivision(r.basic_stats.average_characters_per_word)
    \/ IsZeroDivision(r.sentence_analysis.average_sentence_length)

(***************************************************************************)
(* Failing steps.  fault is the set of blocks of analyze_text in which a   *)
(* library call raises during this call (a tokenizer without its data, an  *)
(* allocation that fails).  _calculate_readability runs inside try/except; *)
(* _get_basic_stats, _get_word_frequency and _analyze_sentences do not.    *)
(***************************************************************************)
UnguardedSteps == {"basic_stats", "word_frequency", "sentence_analysis"}

FaultSteps == UnguardedSteps \cup {"readability"}

\* the handler re-raising what it caught
ReadabilityReraises(failed) == failed

\* "except:" takes every exception: none leaves _calculate_readability
ReadabilityPropagates(failed) == FALSE

\* the try body cut short by an exception, the except body run instead
calculate_readability_under(t, failed) ==
    IF failed THEN ReadabilityFallback ELSE calculate_readability(t)

\* analyze_text when the steps in f raise
analyze_text_under(t, stops, seed, lang, sent, draw, f) ==
    [analyze_text(t, stops, seed, lang, sent, draw) EXCEPT
        !.readability_score =
            calculate_readability_under(t, "readability" \in f)]

\* an exception that no handler takes leaves analyze_text
RaisesUnder(r, f) ==
    \/ Raises(r)
    \/ f \cap UnguardedSteps # {}
    \/ ReadabilityPropagates("readability" \in f)

(***************************************************************************)
(* Documents                                                               *)
(***************************************************************************)
\* all sequences over alphabet of length at most n
SeqsUpTo(alphabet, n) == UNION {[1..k -> alphabet] : k \in 0..n}

MaxLen == 4

MaxWideLen == 2

MaxParaLen == 6

MaxWords == 4

\* words, sentence marks and line breaks
GeneralDocs == SeqsUpTo({"a", "b", "e", " ", "!", "\n"}, MaxLen)

\* every class of character: upper case, digit, each kind of white space
WideDocs ==
    SeqsUpTo({"a", "B", "1", " ", "\t", "\n", "U+3000", "?", "!"}, MaxWideLen)

\* blocks of text and runs of line breaks
ParagraphDocs == SeqsUpTo({"a", " ", "\n"}, MaxParaLen)

\* words joined by single spaces
RECURSIVE JoinWords(_)
JoinWords(ws) ==
    IF ws = <<>> THEN <<>>
    ELSE IF Len(ws) = 1 THEN Head(ws)
    ELSE Head(ws) \o <<" ">> \o JoinWords(Tail(ws))

\* two countable words, a stop word and a number
Vocabulary == {<<"b">>, <<"c">>, <<"a">>, <<"1">>}

\* nine different countable words
Fillers == <<<<"f">>, <<"g">>, <<"h">>, <<"j">>, <<"k">>, <<"l">>, <<"n">>,
             <<"p">>, <<"q">>>>

\* word lists alone, after the fillers, and before the fillers
WordDocs ==
    LET lists == SeqsUpTo(Vocabulary, MaxWords)
    IN  {JoinWords(ws) : ws \in lists}
            \cup {JoinWords(Fillers \o ws) : ws \in lists}
            \cup {JoinWords(ws \o Fillers) : ws \in lists}

CatsDogs == <<"C","a","t","s"," ","r","u","n","."," ","D","o","g","s"," ","r","u","n"," ","f","a","s","t","!">>

OnlyPunctuation == <<"!","!","!","?","?","?">>

\* twelve tokens, three sentences, sixteen syllables: the formula gives 89.975
NearNinety ==
    <<"T","o","d","a","y"," ","w","e"," ","p","l","a","y","!"," ","T","o",
      "d","a","y"," ","w","e"," ","r","e","s","t","!"," ","H","a","p","p",
      "y"," ","b","a","b","y"," ","b","e","d","!">>

ScenarioDocs ==
    {CatsDogs, OnlyPunctuation, NearNinety,
     <<"T","h","e"," ","c","a","t"," ","a","t","e"," ","t","h","e"," ","c","a","k","e",".">>,
     <<"a","\n","\n","\n","\n","b","\n","\n">>,
     <<"B","e"," ","b","r","a","v","e","!"," ","B","e"," ","b","o","l","d","!","\t","B","e">>}

Docs == GeneralDocs \cup WideDocs \cup ParagraphDocs \cup WordDocs
            \cup ScenarioDocs

\* langdetect finds no features in a text without a letter and raises
UsualLanguage(t) == IF \E i \in DOMAIN t : IsAlphaChar(t[i]) THEN "en" ELSE "raise"

NeutralSentiment == [raises |-> FALSE, polarity |-> 0, subjectivity |-> 0]

LangAnswers == {"en", "ja", "af", "raise"}

SentAnswers ==
    {[raises |-> TRUE, polarity |-> 0, subjectivity |-> 0]}
        \cup {[raises |-> FALSE, polarity |-> p, subjectivity |-> 5000] :
                 p \in {-10000, -1004, -1000, 0, 1000, 1004, 3335, 10000}}

\* the documents analysed under every answer of the two libraries
OracleDocs == {<<>>, <<" ">>, <<"a", "b">>, CatsDogs}

Inputs ==
    {[text |-> d, lang |-> UsualLanguage(d), sent |-> NeutralSentiment] :
        d \in Docs}
        \cup {[text |-> d, lang |-> l, sent |-> s] :
                 d \in OracleDocs, l \in LangAnswers, s \in SentAnswers}

(***************************************************************************)
(* The engine called once on a document                                    *)
(***************************************************************************)
\* the analyzers that exist: app.py caches one; a caller may build another
NumInstances == 2

Instances == 1..NumInstances

NoReport == <<>>

\* two browser sessions, each run by a thread of its own
Sessions == {"s1", "s2"}

\* a session that is not inside save_analysis_result
NoCursor == [open |-> FALSE, lastrowid |-> 0, text_content |-> <<>>,
             before |-> 0]

\* two callers of the cached analyzer, each on a thread of its own
Callers == {"first", "second"}

\* a caller that has not called yet
Idle == [status |-> "idle", doc |-> <<>>, step |-> 0, results |-> <<>>,
         overlapped |-> FALSE]

\* URLAnalyzer() before any call
NotCalled == [called |-> FALSE]

\* no URL and no text is given in this run
NoWebInput ==
    /\ url = <<>>
    /\ net = [kind |-> "connection_error"]
    /\ raw = <<>>

\* the state every specification starts from, apart from its inputs
Constructed ==
    /\ pc = "ready"
    /\ report = NoReport
    /\ raised = FALSE
    /\ stop_words = [i \in Instances |-> EnglishStopWords]
    /\ detector_seed = SeededDetector
    /\ calls = <<>>
    /\ syllables = 0
    /\ threads = [c \in Callers |-> Idle]
    /\ rows = {}
    /\ last_id = 0
    /\ clock = 0
    /\ history = <<>>
    /\ cursors = [s \in Sessions |-> NoCursor]
    /\ requested = <<>>
    /\ extracted = NotCalled
    /\ cleaned = <<>>

Init ==
    /\ \E in \in Inputs :
          /\ text = in.text
          /\ lang_oracle = in.lang
          /\ sentiment_oracle = in.sent
    /\ word = <<>>
    /\ fault = {}
    /\ NoWebInput
    /\ Constructed

\* results = analyzer.analyze_text(text)
AnalyzeText(inst) ==
    /\ pc = "ready"
    /\ LET r == analyze_text(text, stop_words[inst], detector_seed,
                             lang_oracle, sentiment_oracle, lang_oracle)
       IN  /\ raised' = Raises(r)
           /\ report' = IF Raises(r) THEN NoReport ELSE r
    /\ pc' = "done"
    /\ UNCHANGED <<text, lang_oracle, sentiment_oracle, fault, stop_words,
                   detector_seed, calls, word, syllables, threads,
                   storage, web, cursors>>

Next == \E inst \in Instances : AnalyzeText(inst)

Spec == Init /\ [][Next]_vars

(***************************************************************************)
(* _count_syllables called on a word                                       *)
(***************************************************************************)
MaxWordLen == 4

Words ==
    SeqsUpTo({"a", "e", "y", "b", "E"}, MaxWordLen)
        \cup {<<"t", "h", "e">>, <<"c", "a", "k", "e">>, <<"!">>,
              <<"r", "h", "y", "t", "h", "m">>, <<"Q", "U", "E", "U", "E">>}

SylInit ==
    /\ word \in Words
    /\ text = <<>>
    /\ lang_oracle = "raise"
    /\ sentiment_oracle = NeutralSentiment
    /\ fault = {}
    /\ NoWebInput
    /\ Constructed

\* self._count_syllables(word)
CountSyllablesCall ==
    /\ pc = "ready"
    /\ syllables' = count_syllables(word)
    /\ pc' = "done"
    /\ UNCHANGED <<text, report, raised, lang_oracle, sentiment_oracle, fault,
                   stop_words, detector_seed, calls, word,
                   threads,
                   storage, web, cursors>>

SylNext == CountSyllablesCall

SylSpec == SylInit /\ [][SylNext]_vars

(***************************************************************************)
(* The engine called again and again on one document                       *)
(***************************************************************************)
MaxCalls == 2

MaxRepeatLen == 2

RepeatDocs ==
    SeqsUpTo({"a", " ", "!"}, MaxRepeatLen) \cup ScenarioDocs \cup OracleDocs

RepeatInit ==
    /\ text \in RepeatDocs
    /\ lang_oracle \in LangAnswers
    /\ sentiment_oracle \in
           {NeutralSentiment,
            [raises |-> TRUE, polarity |-> 0, subjectivity |-> 0]}
    /\ word = <<>>
    /\ fault = {}
    /\ NoWebInput
    /\ Constructed

\* one more analyzer.analyze_text(text), by either analyzer; draw is what an
\* unseeded detector would answer this time
AnalyzeAgain(inst, draw) ==
    /\ Len(calls) < MaxCalls
    /\ LET r == analyze_text(text, stop_words[inst], detector_seed,
                             lang_oracle, sentiment_oracle, draw)
       IN  /\ raised' = Raises(r)
           /\ report' = IF Raises(r) THEN NoReport ELSE r
           /\ calls' = Append(calls, [by |-> inst, result |-> r])
    /\ pc' = "done"
    /\ UNCHANGED <<text, lang_oracle, sentiment_oracle, fault, stop_words,
                   detector_seed, word, syllables, threads,
                   storage, web, cursors>>

RepeatNext ==
    \E inst \in Instances, draw \in LangAnswers \ {"raise"} :
        AnalyzeAgain(inst, draw)

RepeatSpec == RepeatInit /\ [][RepeatNext]_vars

(***************************************************************************)
(* The engine called once while some of its steps fail                     *)
(***************************************************************************)
MaxFaultLen == 2

FaultDocs == SeqsUpTo({"a", " ", "!"}, MaxFaultLen) \cup OracleDocs

FaultInit ==
    /\ text \in FaultDocs
    /\ lang_oracle \in {"en", "raise"}
    /\ sentiment_oracle \in
           {NeutralSentiment,
            [raises |-> TRUE, polarity |-> 0, subjectivity |-> 0]}
    /\ fault \in SUBSET FaultSteps
    /\ word = <<>>
    /\ NoWebInput
    /\ Constructed

\* results = analyzer.analyze_text(text), the steps in fault raising
AnalyzeTextUnderFault(inst) ==
    /\ pc = "ready"
    /\ LET r == analyze_text_under(text, stop_words[inst], detector_seed,
                                   lang_oracle, sentiment_oracle, lang_oracle,
                                   fault)
       IN  /\ raised' = RaisesUnder(r, fault)
           /\ report' = IF RaisesUnder(r, fault) THEN NoReport ELSE r
    /\ pc' = "done"
    /\ UNCHANGED <<text, lang_oracle, sentiment_oracle, fault, stop_words,
                   detector_seed, calls, word, syllables, threads,
                   storage, web, cursors>>

FaultNext == \E inst \in Instances : AnalyzeTextUnderFault(inst)

FaultSpec == FaultInit /\ [][FaultNext]_vars

(***************************************************************************)
(* Two callers inside analyze_text of the cached analyzer at once.  A call *)
(* computes its seven blocks one after the other; between two blocks the   *)
(* other caller may run.  A block reads the text of its own call, and of   *)
(* the shared analyzer self.stop_words and the detector's seed.            *)
(***************************************************************************)
\* analyzer = init_analyzer(): the one instance st.cache_resource keeps
CachedAnalyzer == 1

\* the keys of results, in the order analyze_text computes them
Blocks ==
    <<"basic_stats", "language_detection", "sentiment_analysis",
      "readability_score", "word_frequency", "sentence_analysis",
      "character_analysis">>

ConcDocs ==
    {<<>>, <<"b", " ", "a">>, <<"b", "!", " ", "c", " ", "b">>, CatsDogs}

\* a frequency step that adds the tokens it saw to self.stop_words
SelfGrowsAfterStep(stops, name, t) ==
    IF name = "word_frequency"
    THEN LET tokens == word_tokenize(Lower(t))
         IN  stops \cup {tokens[i] : i \in DOMAIN tokens}
    ELSE stops

\* no method assigns to an attribute of self after __init__: a step leaves
\* self.stop_words as it found it
SelfAfterStep(stops, name, t) == stops

ConcInit ==
    /\ text = <<>>
    /\ lang_oracle = "raise"
    /\ sentiment_oracle = NeutralSentiment
    /\ fault = {}
    /\ word = <<>>
    /\ NoWebInput
    /\ Constructed

\* a caller enters analyzer.analyze_text(d)
Begin(c, d) ==
    /\ threads[c].status = "idle"
    /\ threads' = [threads EXCEPT ![c] =
                      [Idle EXCEPT !.status = "running", !.doc = d]]
    /\ UNCHANGED <<text, pc, report, raised, lang_oracle, sentiment_oracle,
                   fault, stop_words, detector_seed, calls, word, syllables,
                   storage, web, cursors>>

\* the caller computes its next block from its own text and from the shared
\* analyzer as it is now
Step(c) ==
    LET th   == threads[c]
        name == Blocks[th.step + 1]
        lang == UsualLanguage(th.doc)
        now  == analyze_text(th.doc, stop_words[CachedAnalyzer],
                             detector_seed, lang, NeutralSentiment, lang)
    IN  /\ th.status = "running"
        /\ th.step < Len(Blocks)
        /\ threads' = [threads EXCEPT ![c] =
                          [th EXCEPT
                              !.step = th.step + 1,
                              !.results = th.results @@ (name :> now[name]),
                              !.overlapped =
                                  th.overlapped \/
                                  \E o \in Callers \ {c} :
                                      threads[o].status = "running"]]
        /\ stop_words' = [stop_words EXCEPT ![CachedAnalyzer] =
                              SelfAfterStep(@, name, th.doc)]
        /\ UNCHANGED <<text, pc, report, raised, lang_oracle, sentiment_oracle,
                       fault, detector_seed, calls, word, syllables,
                   storage, web, cursors>>

\* return results
Return(c) ==
    /\ threads[c].status = "running"
    /\ threads[c].step = Len(Blocks)
    /\ threads' = [threads EXCEPT ![c].status =
                      IF Raises(threads[c].results) THEN "raised"
                      ELSE "returned"]
    /\ UNCHANGED <<text, pc, report, raised, lang_oracle, sentiment_oracle,
                   fault, stop_words, detector_seed, calls, word, syllables,
                   storage, web, cursors>>

ConcNext ==
    \E c \in Callers :
        \/ \E d \in ConcDocs : Begin(c, d)
        \/ Step(c)
        \/ Return(c)

ConcSpec == ConcInit /\ [][ConcNext]_vars

(***************************************************************************)
(* DatabaseManager: the table analysis_results.  rows is the set of its    *)
(* rows and last_id the sequence AUTOINCREMENT keeps for the table.  A     *)
(* timestamp is the clock in whole seconds, as strftime writes it.  A      *)
(* JSON text is modelled by the value it encodes, [json |-> value].  In a  *)
(* report <<key, count>> is the Python tuple (key, count); JSON has arrays *)
(* only, <<"array", key, count>>, and json.loads reads an array as the     *)
(* Python list [key, count], written <<"list", key, count>>.  history is   *)
(* the sequence of the calls made, each with its arguments and its result. *)
(***************************************************************************)
MaxOps == 3

MaxClock == 2

\* file_name=None
NoFile == <<"None">>

FileNames == {NoFile, <<"name", "notes.txt">>}

\* the value None returned by get_analysis_by_id
None == [found |-> FALSE]

\* the columns that hold json.dumps of a block
BlockColumns ==
    {"basic_stats", "language_detection", "sentiment_analysis",
     "readability_score", "word_frequency", "sentence_analysis",
     "character_analysis"}

\* the (key, count) tuples of a ranking written as arrays / read as lists
PairsAsArrays(pairs) == [i \in DOMAIN pairs |-> <<"array">> \o pairs[i]]

ArraysAsLists(arrays) == [i \in DOMAIN arrays |-> <<"list">> \o Tail(arrays[i])]

\* json.dumps(results[column])
Dumps(column, block) ==
    [json |->
        IF column = "word_frequency"
        THEN [block EXCEPT !.most_common_words = PairsAsArrays(@)]
        ELSE IF column = "character_analysis"
        THEN [block EXCEPT !.most_common_letters = PairsAsArrays(@)]
        ELSE block]

\* json.loads(analysis_dict[column])
Loads(column, s) ==
    IF column = "word_frequency"
    THEN [s.json EXCEPT !.most_common_words = ArraysAsLists(@)]
    ELSE IF column = "character_analysis"
    THEN [s.json EXCEPT !.most_common_letters = ArraysAsLists(@)]
    ELSE s.json

\* the row INSERT writes; file_size is len(text) where the caller names a file
NewRow(id, now, text_content, results, file_name) ==
    [id                 |-> id,
     timestamp          |-> now,
     text_content       |-> text_content,
     text_length        |-> Len(text_content),
     analysis_type      |-> "comprehensive",
     basic_stats        |-> Dumps("basic_stats", results.basic_stats),
     language_detection |-> Dumps("language_detection", results.language_detection),
     sentiment_analysis |-> Dumps("sentiment_analysis", results.sentiment_analysis),
     readability_score  |-> Dumps("readability_score", results.readability_score),
     word_frequency     |-> Dumps("word_frequency", results.word_frequency),
     sentence_analysis  |-> Dumps("sentence_analysis", results.sentence_analysis),
     character_analysis |-> Dumps("character_analysis", results.character_analysis),
     file_name          |-> file_name,
     file_size          |-> IF file_name = NoFile THEN NoFile
                            ELSE <<"int", Len(text_content)>>]

\* SELECT * ... WHERE id = ?, fetchone(), and json.loads of the block columns
get_analysis_by_id(table, analysis_id) ==
    LET found == {r \in table : r.id = analysis_id}
    IN  IF found = {} THEN None
        ELSE LET result == CHOOSE r \in found : TRUE
             IN  [found  |-> TRUE,
                  record |-> [col \in DOMAIN result |->
                                 IF col \in BlockColumns
                                 THEN Loads(col, result[col])
                                 ELSE result[col]]]

\* the columns the SELECT of get_all_analyses names
ListColumns ==
    {"id", "timestamp", "text_content", "text_length", "file_name"}
        \cup BlockColumns

\* the orders ORDER BY timestamp DESC allows: every row once, a later
\* timestamp before an earlier one; SQL leaves the order of rows with equal
\* timestamps open
OrdersOf(table) ==
    LET ids == {r.id : r \in table}
        n   == Cardinality(ids)
        at(id) == (CHOOSE r \in table : r.id = id).timestamp
    IN  {o \in [1..n -> ids] :
            /\ \A i, j \in 1..n : i # j => o[i] # o[j]
            /\ \A i, j \in 1..n : i < j => at(o[i]) >= at(o[j])}

\* the data frame of get_all_analyses, its rows in the order the query gave
get_all_analyses(table, order) ==
    [i \in DOMAIN order |->
        LET r == CHOOSE x \in table : x.id = order[i]
        IN  [col \in ListColumns |->
                IF col \in BlockColumns THEN Loads(col, r[col]) ELSE r[col]]]

\* the documents whose reports are saved
DbDocs == {<<"b">>, <<"!">>}

\* the ids asked for: those saved and one never saved
AskedIds == 1..MaxOps

DbInit ==
    /\ text = <<>>
    /\ lang_oracle = "raise"
    /\ sentiment_oracle = NeutralSentiment
    /\ fault = {}
    /\ word = <<>>
    /\ NoWebInput
    /\ Constructed

\* analysis_id = db_manager.save_analysis_result(text, results, file_name, ..)
SaveAnalysisResult(t, file_name) ==
    LET results == analyze_text(t, EnglishStopWords, detector_seed,
                                UsualLanguage(t), NeutralSentiment,
                                UsualLanguage(t))
        id      == last_id + 1
    IN  /\ Len(history) < MaxOps
        /\ rows' = rows \cup {NewRow(id, clock, t, results, file_name)}
        /\ last_id' = id
        /\ history' = Append(history,
                           [op |-> "save", id |-> id, text_content |-> t,
                            results |-> results, file_name |-> file_name,
                            result |-> id])
        /\ UNCHANGED <<engine, web, cursors, clock>>

\* analysis = db_manager.get_analysis_by_id(id)
GetAnalysisById(id) ==
    /\ Len(history) < MaxOps
    /\ history' = Append(history,
                       [op |-> "get", id |-> id,
                        result |-> get_analysis_by_id(rows, id)])
    /\ UNCHANGED <<engine, web, cursors, rows, last_id, clock>>

\* the statement with WHERE id <= ?
DeletedUpTo(table, analysis_id) == {r \in table : r.id <= analysis_id}

\* the rows DELETE FROM analysis_results WHERE id = ? takes
Deleted(table, analysis_id) == {r \in table : r.id = analysis_id}

\* db_manager.delete_analysis(id): DELETE ... WHERE id = ?, rowcount > 0
DeleteAnalysis(id) ==
    LET gone == Deleted(rows, id)
    IN  /\ Len(history) < MaxOps
        /\ rows' = rows \ gone
        /\ history' = Append(history,
                           [op |-> "delete", id |-> id,
                            result |-> Cardinality(gone) > 0])
        /\ UNCHANGED <<engine, web, cursors, last_id, clock>>

\* df = db_manager.get_all_analyses()
GetAllAnalyses(order) ==
    /\ Len(history) < MaxOps
    /\ order \in OrdersOf(rows)
    /\ history' = Append(history,
                       [op |-> "list",
                        result |-> get_all_analyses(rows, order)])
    /\ UNCHANGED <<engine, web, cursors, rows, last_id, clock>>

\* a second passes
Tick ==
    /\ clock < MaxClock
    /\ clock' = clock + 1
    /\ UNCHANGED <<engine, web, cursors, rows, last_id, history>>

DbNext ==
    \/ \E t \in DbDocs, f \in FileNames : SaveAnalysisResult(t, f)
    \/ \E id \in AskedIds : GetAnalysisById(id)
    \/ \E id \in AskedIds : DeleteAnalysis(id)
    \/ \E order \in OrdersOf(rows) : GetAllAnalyses(order)
    \/ Tick

DbSpec == DbInit /\ [][DbNext]_vars

(***************************************************************************)
(* DatabaseManager.export_to_csv and export_to_txt.  A row of the CSV      *)
(* frame and a section of the text are modelled by the values they show:   *)
(* the id, the timestamp, the file name, the text length, and for every    *)
(* <<block, field>> the exporter reads the value dict.get gave it, after   *)
(* the format the exporter applies.  analysis_ids is a sequence of ids,    *)
(* <<>> standing for None.                                                 *)
(***************************************************************************)
\* block.get(field, default)
Get(block, field, default) ==
    IF field \in DOMAIN block THEN block[field] ELSE default

\* the fields export_to_csv reads
CsvFields ==
    {<<"language_detection", "language_name">>,
     <<"sentiment_analysis", "sentiment">>,
     <<"sentiment_analysis", "polarity_percentage">>,
     <<"sentiment_analysis", "subjectivity">>,
     <<"basic_stats", "word_count">>,
     <<"basic_stats", "sentence_count">>,
     <<"basic_stats", "paragraph_count">>,
     <<"basic_stats", "average_words_per_sentence">>,
     <<"basic_stats", "average_characters_per_word">>}

\* the fields export_to_txt reads
TxtFields ==
    {<<"basic_stats", "character_count">>,
     <<"basic_stats", "word_count">>,
     <<"basic_stats", "sentence_count">>,
     <<"basic_stats", "paragraph_count">>,
     <<"basic_stats", "average_words_per_sentence">>,
     <<"basic_stats", "average_characters_per_word">>,
     <<"language_detection", "language_name">>,
     <<"language_detection", "language_code">>,
     <<"sentiment_analysis", "sentiment">>,
     <<"sentiment_analysis", "polarity_percentage">>,
     <<"sentiment_analysis", "subjectivity">>,
     <<"readability_score", "flesch_score">>,
     <<"readability_score", "readability_level">>,
     <<"readability_score", "syllable_count">>,
     <<"word_frequency", "unique_words">>,
     <<"word_frequency", "total_words_analyzed">>,
     <<"word_frequency", "most_common_words">>,
     <<"sentence_analysis", "average_sentence_length">>,
     <<"sentence_analysis", "shortest_sentence">>,
     <<"sentence_analysis", "longest_sentence">>,
     <<"character_analysis", "total_letters">>,
     <<"character_analysis", "unique_letters">>,
     <<"character_analysis", "most_common_letters">>}

\* the second argument of get: '' for the texts, nothing for the rankings
\* (get then gives None, which the if skips), 0 for the numbers
DefaultOf(p) ==
    IF p[2] \in {"language_name", "language_code", "sentiment",
                 "readability_level"} THEN ""
    ELSE IF p[2] \in {"most_common_words", "most_common_letters"} THEN <<>>
    ELSE 0

\* the averages, which are floats with many decimals and are written :.1f
OneDecimalFields ==
    {<<"basic_stats", "average_words_per_sentence">>,
     <<"basic_stats", "average_characters_per_word">>,
     <<"sentence_analysis", "average_sentence_length">>}

\* f"{value:.1f}", in tenths
Fixed1(r) == Round(10 * r.num, r.den)

\* what the text shows for a value that was read
TxtFormat(p, v) == IF p \in OneDecimalFields THEN Fixed1(v) ELSE v

\* row['file_name'] or the words for 'text input'
FileNameShown(file_name) ==
    IF file_name = NoFile THEN <<"text_input">> ELSE file_name

\* a column that still holds JSON text, not a dict
IsJsonText(v) == "json" \in DOMAIN v

\* the rows SELECT ... WHERE id IN (...) gives, as read_sql_query returns
\* them: the block columns are the stored JSON text
SelectListed(table, ids, order) ==
    [i \in DOMAIN order |->
        LET r == CHOOSE x \in table : x.id = order[i]
        IN  [col \in ListColumns |-> r[col]]]

\* the rows whose id is in the list
Listed(table, ids) == {r \in table : \E i \in DOMAIN ids : ids[i] = r.id}

CsvRow(row) ==
    [id          |-> row.id,
     timestamp   |-> row.timestamp,
     file_name   |-> FileNameShown(row.file_name),
     text_length |-> row.text_length,
     values      |-> [p \in CsvFields |->
                         Get(row[p[1]], p[2], DefaultOf(p))]]

\* str.get on a column of JSON text raises AttributeError
export_to_csv(table, ids, order) ==
    LET df == IF ids # <<>> THEN SelectListed(table, ids, order)
              ELSE get_all_analyses(table, order)
    IN  IF \E i \in DOMAIN df : \E p \in CsvFields : IsJsonText(df[i][p[1]])
        THEN [raised |-> TRUE]
        ELSE [raised |-> FALSE, rows |-> [i \in DOMAIN df |-> CsvRow(df[i])]]

TxtSection(analysis) ==
    [id          |-> analysis.id,
     timestamp   |-> analysis.timestamp,
     file_name   |-> FileNameShown(analysis.file_name),
     text_length |-> Len(analysis.text_content),
     values      |-> [p \in TxtFields |->
                         IF p[2] \in DOMAIN analysis[p[1]]
                         THEN TxtFormat(p, analysis[p[1]][p[2]])
                         ELSE DefaultOf(p)]]

\* analysis['id'] on the None of an id that is not stored raises TypeError
export_to_txt(table, ids, order) ==
    LET all      == get_all_analyses(table, order)
        analyses == IF ids # <<>>
                    THEN [i \in DOMAIN ids |-> get_analysis_by_id(table, ids[i])]
                    ELSE [i \in DOMAIN all |->
                             [found |-> TRUE, record |-> all[i]]]
    IN  IF \E i \in DOMAIN analyses : ~analyses[i].found
        THEN [raised |-> TRUE]
        ELSE [raised   |-> FALSE,
              sections |-> [i \in DOMAIN analyses |->
                               TxtSection(analyses[i].record)]]

\* the lists of ids asked for: stored ids in both orders, and an id that is
\* never stored
IdLists == {<<>>, <<1>>, <<2>>, <<1, 2>>, <<2, 1>>, <<1, 9>>, <<9>>}

\* the rows the query of the export reads: all, or the listed ones
ExportedFrom(table, ids) == IF ids # <<>> THEN Listed(table, ids) ELSE table

ExportInit ==
    /\ text = <<>>
    /\ lang_oracle = "raise"
    /\ sentiment_oracle = NeutralSentiment
    /\ fault = {}
    /\ word = <<>>
    /\ NoWebInput
    /\ Constructed

\* db_manager.export_to_csv(analysis_ids)
ExportToCsv(ids, order) ==
    /\ Len(history) < MaxOps
    /\ order \in OrdersOf(ExportedFrom(rows, ids))
    /\ history' = Append(history,
                       [op |-> "csv", ids |-> ids, table |-> rows,
                        result |-> export_to_csv(rows, ids, order)])
    /\ UNCHANGED <<engine, web, cursors, rows, last_id, clock>>

\* db_manager.export_to_txt(analysis_ids)
ExportToTxt(ids, order) ==
    /\ Len(history) < MaxOps
    /\ order \in OrdersOf(ExportedFrom(rows, ids))
    /\ history' = Append(history,
                       [op |-> "txt", ids |-> ids, table |-> rows,
                        result |-> export_to_txt(rows, ids, order)])
    /\ UNCHANGED <<engine, web, cursors, rows, last_id, clock>>

ExportNext ==
    \/ \E t \in DbDocs, f \in FileNames : SaveAnalysisResult(t, f)
    \/ \E id \in AskedIds : DeleteAnalysis(id)
    \/ \E ids \in IdLists :
          \E order \in OrdersOf(ExportedFrom(rows, ids)) :
              ExportToCsv(ids, order)
    \/ \E ids \in IdLists :
          \E order \in OrdersOf(ExportedFrom(rows, ids)) :
              ExportToTxt(ids, order)
    \/ Tick

ExportSpec == ExportInit /\ [][ExportNext]_vars

(***************************************************************************)
(* Sessions saving at once on the shared DatabaseManager.  Every call of   *)
(* save_analysis_result opens a connection and a cursor of its own.  The   *)
(* INSERT with its commit is one step (SQLite lets one writer in at a      *)
(* time); conn.close() and return cursor.lastrowid are a later step of the *)
(* same call, and other sessions may run in between.                       *)
(***************************************************************************)
\* the id read from the table's sequence when the call returns
LastRowIdOfTable(own, sequence) == sequence

\* cursor.lastrowid: the rowid of the row this cursor inserted
LastRowId(own, sequence) == own

SessInit ==
    /\ text = <<>>
    /\ lang_oracle = "raise"
    /\ sentiment_oracle = NeutralSentiment
    /\ fault = {}
    /\ word = <<>>
    /\ NoWebInput
    /\ Constructed

\* the calls begun: those that returned, the deletes, those still inside
CallsBegun ==
    Len(history) + Cardinality({s \in Sessions : cursors[s].open})

\* cursor.execute(INSERT ...); conn.commit()
InsertRow(s, t) ==
    LET results == analyze_text(t, EnglishStopWords, detector_seed,
                                UsualLanguage(t), NeutralSentiment,
                                UsualLanguage(t))
        id      == last_id + 1
    IN  /\ ~cursors[s].open
        /\ CallsBegun < MaxOps
        /\ rows' = rows \cup {NewRow(id, clock, t, results, NoFile)}
        /\ last_id' = id
        /\ cursors' = [cursors EXCEPT ![s] =
                          [open |-> TRUE, lastrowid |-> id,
                           text_content |-> t, before |-> Len(history)]]
        /\ UNCHANGED <<engine, web, clock, history>>

\* conn.close(); return cursor.lastrowid
ReturnLastRowId(s) ==
    /\ cursors[s].open
    /\ history' = Append(history,
                       [op |-> "save", session |-> s,
                        text_content |-> cursors[s].text_content,
                        before |-> cursors[s].before,
                        result |-> LastRowId(cursors[s].lastrowid, last_id)])
    /\ cursors' = [cursors EXCEPT ![s] = NoCursor]
    /\ UNCHANGED <<engine, web, rows, last_id, clock>>

\* a session deletes a record
SessionDelete(id) ==
    /\ CallsBegun < MaxOps
    /\ DeleteAnalysis(id)

SessNext ==
    \/ \E s \in Sessions, t \in DbDocs : InsertRow(s, t)
    \/ \E s \in Sessions : ReturnLastRowId(s)
    \/ \E id \in AskedIds : SessionDelete(id)

SessSpec == SessInit /\ [][SessNext]_vars

(***************************************************************************)
(* URLAnalyzer.clean_text                                                  *)
(***************************************************************************)
\* re.sub(r'\s+', ' ', text): every run of white space becomes one space
RECURSIVE CollapseWhitespace(_)
CollapseWhitespace(t) ==
    IF t = <<>> THEN <<>>
    ELSE IF Head(t) \in Whitespace
    THEN IF Len(t) > 1 /\ t[2] \in Whitespace
         THEN CollapseWhitespace(Tail(t))
         ELSE <<" ">> \o CollapseWhitespace(Tail(t))
    ELSE <<Head(t)>> \o CollapseWhitespace(Tail(t))

\* re.sub(r'\n+', '\n', text): every run of line breaks becomes one
RECURSIVE CollapseNewlines(_)
CollapseNewlines(t) ==
    IF t = <<>> THEN <<>>
    ELSE IF Head(t) = "\n" /\ Len(t) > 1 /\ t[2] = "\n"
    THEN CollapseNewlines(Tail(t))
    ELSE <<Head(t)>> \o CollapseNewlines(Tail(t))

\* the punctuation named in the class [^\w\s\.,!?;:()\[\]{}"'-]
KeptPunctuation ==
    {".", ",", "!", "?", ";", ":", "(", ")", "[", "]", "{", "}", "\"", "'",
     "-"}

\* \w: a letter, a digit or the underscore
IsWordChar(c) == IsAlphaChar(c) \/ c \in Digits \/ c = "_"

\* the characters the third substitution leaves in place
IsKept(c) == IsWordChar(c) \/ c \in Whitespace \/ c \in KeptPunctuation

\* re.sub(r'[^\w\s\.,!?;:()\[\]{}"\'-]', '', text)
RemoveSpecial(t) == SelectSeq(t, IsKept)

\* text.strip()
Strip(t) ==
    LET keep == {i \in DOMAIN t : t[i] \notin Whitespace}
    IN  IF keep = {} THEN <<>>
        ELSE LET first == CHOOSE i \in keep : \A j \in keep : i <= j
                 last  == CHOOSE i \in keep : \A j \in keep : j <= i
             IN  SubSeq(t, first, last)

clean_text(t) ==
    Strip(RemoveSpecial(CollapseNewlines(CollapseWhitespace(t))))

(***************************************************************************)
(* URLAnalyzer.validate_url and extract_text_from_url.  What the network   *)
(* and the HTML parser answer is an input: net.kind is "connection_error"  *)
(* (session.get raises), "http_error" (raise_for_status raises),           *)
(* "unparsable" (BeautifulSoup raises) or "page", and then net.page gives  *)
(* what get_text returns for the main tag, the article tags, the body and  *)
(* the whole document, Absent where the page has no such tag.              *)
(***************************************************************************)
HttpPrefix == <<"h", "t", "t", "p", ":", "/", "/">>

HttpsPrefix == <<"h", "t", "t", "p", "s", ":", "/", "/">>

\* str.startswith
StartsWith(u, prefix) ==
    Len(u) >= Len(prefix) /\ SubSeq(u, 1, Len(prefix)) = prefix

\* if not url.startswith(('http://', 'https://')): url = 'https://' + url
WithScheme(u) ==
    IF StartsWith(u, HttpPrefix) \/ StartsWith(u, HttpsPrefix) THEN u
    ELSE HttpsPrefix \o u

\* urlparse(url).scheme for a URL that starts with http:// or https://
SchemeOf(u) ==
    IF StartsWith(u, HttpsPrefix) THEN "https"
    ELSE IF StartsWith(u, HttpPrefix) THEN "http"
    ELSE ""

\* urlparse(url).netloc: what follows "//" up to the next "/", "?" or "#"
NetlocOf(u) ==
    LET from == IF StartsWith(u, HttpsPrefix) THEN Len(HttpsPrefix)
                ELSE IF StartsWith(u, HttpPrefix) THEN Len(HttpPrefix)
                ELSE Len(u)
        rest == SubSeq(u, from + 1, Len(u))
        ends == {i \in DOMAIN rest : rest[i] \in {"/", "?", "#"}}
    IN  IF ends = {} THEN rest
        ELSE SubSeq(rest, 1, (CHOOSE i \in ends : \A j \in ends : i <= j) - 1)

\* urlsplit raises ValueError("Invalid IPv6 URL") on an unpaired bracket
UrlParseRaises(u) ==
    LET netloc == NetlocOf(u)
        has(c) == \E i \in DOMAIN netloc : netloc[i] = c
    IN  has("[") # has("]")

Failure(message) == [raised |-> FALSE, ok |-> FALSE, value |-> <<message>>]

Success(value) == [raised |-> FALSE, ok |-> TRUE, value |-> value]

\* (is_valid, result): the URL to fetch, or a message
validate_url(u) ==
    LET with_scheme == WithScheme(u)
    IN  IF UrlParseRaises(with_scheme) THEN Failure("validation_error")
        ELSE IF SchemeOf(with_scheme) = "" \/ NetlocOf(with_scheme) = <<>>
        THEN Failure("invalid_url_format")
        ELSE Success(with_scheme)

\* the page has no such tag
Absent == <<"absent">>

\* article.get_text(...) + " " for every article tag
RECURSIVE JoinArticles(_)
JoinArticles(articles) ==
    IF articles = <<>> THEN <<>>
    ELSE Head(articles) \o <<" ">> \o JoinArticles(Tail(articles))

\* main, else the articles, else body, else the whole document
MainContent(page) ==
    IF page.main # Absent THEN page.main
    ELSE IF page.articles # <<>> THEN JoinArticles(page.articles)
    ELSE IF page.body # Absent THEN page.body
    ELSE page.all

\* the handlers taking requests' exceptions only
CaughtRequestOnly(exception) == exception = "RequestException"

\* except requests.exceptions.RequestException / except Exception
Caught(exception) == exception \in {"RequestException", "Exception"}

\* the exception the try body ends with, "none" when it returns
BodyException(n) ==
    IF n.kind \in {"connection_error", "http_error"} THEN "RequestException"
    ELSE IF n.kind = "unparsable" THEN "Exception"
    ELSE "none"

\* the URL given to session.get, <<>> when the call does not get that far
RequestedUrl(u) ==
    LET valid == validate_url(u)
    IN  IF valid.ok THEN valid.value ELSE <<>>

extract_text_from_url(u, n) ==
    LET valid == validate_url(u)
        e     == BodyException(n)
    IN  IF ~valid.ok THEN valid
        ELSE IF e # "none"
        THEN IF ~Caught(e) THEN [raised |-> TRUE, ok |-> FALSE, value |-> <<e>>]
             ELSE IF e = "RequestException" THEN Failure("access_failed")
             ELSE Failure("extraction_error")
        ELSE LET cleaned_text == clean_text(MainContent(n.page))
             IN  IF ~StripNonEmpty(cleaned_text) THEN Failure("no_text")
                 ELSE Success(cleaned_text)

(***************************************************************************)
(* extract_text_from_url called on a URL                                   *)
(***************************************************************************)
MaxUrlLen == 2

Urls ==
    {prefix \o rest :
        prefix \in {<<>>, HttpPrefix, HttpsPrefix, <<"f", "t", "p", ":", "/", "/">>},
        rest \in SeqsUpTo({"a", ".", "/", "["}, MaxUrlLen)}

\* what get_text gives for a tag: nothing, a word, a removed character
\* alone, and a removed character between two spaces
TagTexts == {<<>>, <<"a">>, <<"@">>, <<"a", " ", "@", " ", "b">>}

NoPage == [main |-> Absent, articles |-> <<>>, body |-> Absent, all |-> <<>>]

Pages ==
    {[NoPage EXCEPT !.main = t] : t \in TagTexts}
        \cup {[NoPage EXCEPT !.articles = <<t>>] : t \in TagTexts}
        \cup {[NoPage EXCEPT !.articles = <<<<"a">>, t>>] : t \in TagTexts}
        \cup {[NoPage EXCEPT !.body = t] : t \in TagTexts}
        \cup {[NoPage EXCEPT !.all = t] : t \in TagTexts}

NetAnswers ==
    {[kind |-> k] : k \in {"connection_error", "http_error", "unparsable"}}
        \cup {[kind |-> "page", page |-> p] : p \in Pages}

UrlInit ==
    /\ url \in Urls
    /\ net \in NetAnswers
    /\ raw = <<>>
    /\ text = <<>>
    /\ lang_oracle = "raise"
    /\ sentiment_oracle = NeutralSentiment
    /\ fault = {}
    /\ word = <<>>
    /\ Constructed

\* success, result = url_analyzer.extract_text_from_url(url)
ExtractTextFromUrl ==
    /\ ~extracted.called
    /\ extracted' = [called |-> TRUE,
                     result |-> extract_text_from_url(url, net)]
    /\ requested' = RequestedUrl(url)
    /\ UNCHANGED <<engine, storage, cursors, url, net, raw, cleaned>>

UrlNext == ExtractTextFromUrl

UrlSpec == UrlInit /\ [][UrlNext]_vars

(***************************************************************************)
(* clean_text called on a text, and again on what it returned              *)
(***************************************************************************)
MaxCleanLen == 5

MaxCleanCalls == 2

\* a letter, the two kinds of white space and a character that is removed
CleanDocs == SeqsUpTo({"a", " ", "\n", "@"}, MaxCleanLen)

CleanInit ==
    /\ raw \in CleanDocs
    /\ url = <<>>
    /\ net = [kind |-> "connection_error"]
    /\ text = <<>>
    /\ lang_oracle = "raise"
    /\ sentiment_oracle = NeutralSentiment
    /\ fault = {}
    /\ word = <<>>
    /\ Constructed

\* cleaned_text = self.clean_text(...), first of raw, then of the last result
CleanText ==
    /\ Len(cleaned) < MaxCleanCalls
    /\ cleaned' = Append(cleaned,
                       clean_text(IF cleaned = <<>> THEN raw
                                  ELSE cleaned[Len(cleaned)]))
    /\ UNCHANGED <<engine, storage, cursors, url, net, requested, extracted, raw>>

CleanNext == CleanText

CleanSpec == CleanInit /\ [][CleanNext]_vars

(***************************************************************************)
(* Properties of one analysis (specification Spec)                         *)
(***************************************************************************)
Done == pc = "done"

Returned == pc = "done" /\ ~raised

\* C1: analysing a text never raises and never divides by zero; with no
\* sentences average_words_per_sentence is 0, with no words
\* average_characters_per_word is 0, and with either missing flesch_score is
\* 0, the sentence block is all 0 with an empty sentence_lengths, and the
\* word-frequency and character blocks report 0 counts and empty rankings.
C1_EmptyTextDefaults ==
    Done =>
      /\ ~raised
      /\ report.basic_stats.average_words_per_sentence.den # 0
      /\ report.basic_stats.average_characters_per_word.den # 0
      /\ report.sentence_analysis.average_sentence_length.den # 0
      /\ report.basic_stats.sentence_count = 0 =>
            report.basic_stats.average_words_per_sentence = Zero
      /\ report.basic_stats.word_count = 0 =>
            report.basic_stats.average_characters_per_word = Zero
      /\ (report.basic_stats.word_count = 0
            \/ report.basic_stats.sentence_count = 0) =>
            /\ report.readability_score.flesch_score = 0
            /\ report.sentence_analysis =
                  [average_sentence_length |-> Zero, shortest_sentence |-> 0,
                   longest_sentence |-> 0, sentence_lengths |-> <<>>]
            /\ report.word_frequency =
                  [unique_words |-> 0, most_common_words |-> <<>>,
                   total_words_analyzed |-> 0]
            /\ report.character_analysis.total_letters = 0
            /\ report.character_analysis.unique_letters = 0
            /\ report.character_analysis.most_common_letters = <<>>

\* a white-space-only document was analysed: no words, no sentences
C1_Witness ==
    /\ Returned
    /\ Len(text) > 1
    /\ report.basic_stats.word_count = 0
    /\ report.basic_stats.sentence_count = 0

\* C2: word tokens are the lower-cased alphanumeric runs, punctuation never
\* counted; for "Cats run. Dogs run fast!" word_count is 5, sentence_count 2
\* and average_words_per_sentence 2.5.
C2_CatsDogsFiveWords ==
    (Done /\ text = CatsDogs) =>
      /\ ~raised
      /\ report.basic_stats.word_count = 5
      /\ report.basic_stats.sentence_count = 2
      /\ 2 * report.basic_stats.average_words_per_sentence.num
            = 5 * report.basic_stats.average_words_per_sentence.den

\* C3: for the punctuation-only document "!!!???" word_count is 0, the
\* flesch_score is 0 and the level is the lowest label, not an "easy" one.
C3_OnlyPunctuationScoresZero ==
    (Done /\ text = OnlyPunctuation) =>
      /\ ~raised
      /\ report.basic_stats.word_count = 0
      /\ report.readability_score.flesch_score = 0
      /\ report.readability_score.readability_level
            \in {"very_difficult", "could_not_compute"}

RetainedWords == FilterWords(word_tokenize(Lower(text)), EnglishStopWords)

FirstOccurrence(xs, x) ==
    CHOOSE i \in DOMAIN xs : xs[i] = x /\ \A j \in 1..(i - 1) : xs[j] # x

\* C5: of two retained words with equal counts the one first seen earlier in
\* the document comes first in most_common_words, and a word cut off by the
\* top 10 was first seen later than every listed word with the same count.
C5_TiesKeepFirstSeenOrder ==
    Returned =>
      LET mc == report.word_frequency.most_common_words
          rw == RetainedWords
          listed == {mc[i][1] : i \in DOMAIN mc}
      IN  /\ \A i, j \in DOMAIN mc :
                (i < j /\ mc[i][2] = mc[j][2]) =>
                    FirstOccurrence(rw, mc[i][1]) < FirstOccurrence(rw, mc[j][1])
          /\ \A k \in DOMAIN rw : \A i \in DOMAIN mc :
                (rw[k] \notin listed /\ Occurrences(rw, rw[k]) = mc[i][2]) =>
                    FirstOccurrence(rw, mc[i][1]) < k

\* more than ten words, and the tenth is tied with one that was cut off
C5_Witness ==
    /\ Returned
    /\ report.word_frequency.unique_words > TopN
    /\ LET mc == report.word_frequency.most_common_words
           rw == RetainedWords
       IN  /\ Len(mc) = TopN
           /\ \E k \in DOMAIN rw :
                 /\ \A i \in DOMAIN mc : mc[i][1] # rw[k]
                 /\ Occurrences(rw, rw[k]) = mc[TopN][2]
           /\ \E i \in 1..(TopN - 1) : mc[i][2] = mc[i + 1][2]

\* C7: character_count is the number of characters of the document.
C7_CharacterCountIsLength ==
    Returned => report.basic_stats.character_count = Cardinality(DOMAIN text)

\* a document with a character outside ASCII and a line break
C7_Witness ==
    /\ Returned
    /\ \E i, j \in DOMAIN text : text[i] = "U+3000" /\ text[j] = "\n"

\* C8: character_count_no_spaces is the number of characters that are not
\* white space of any kind (space, tab, line break, ideographic space).
C8_NoWhitespaceCounted ==
    Returned =>
      report.basic_stats.character_count_no_spaces
          = Cardinality({i \in DOMAIN text : text[i] \notin Whitespace})

\* positions of the line breaks that stand in a run of two or more
BlankLinePositions(t) ==
    {i \in DOMAIN t :
        /\ t[i] = "\n"
        /\ \/ i > 1 /\ t[i - 1] = "\n"
           \/ i < Len(t) /\ t[i + 1] = "\n"}

\* positions of the first visible character of each block between such runs
BlockStarts(t) ==
    {i \in DOMAIN t :
        /\ t[i] \notin Whitespace
        /\ \A j \in 1..(i - 1) :
              t[j] \notin Whitespace =>
                  \E k \in BlankLinePositions(t) : j < k /\ k < i}

\* C9: paragraph_count is the number of non-empty blocks separated by runs
\* of two or more line breaks, each run one separator, and blank lines at
\* the start or the end add nothing.
C9_ParagraphsAreBlocks ==
    Returned =>
      report.basic_stats.paragraph_count = Cardinality(BlockStarts(text))

\* two blocks with three or more line breaks between them
C9_Witness ==
    /\ Returned
    /\ report.basic_stats.paragraph_count = 2
    /\ \E i \in DOMAIN text :
          /\ i + 2 <= Len(text)
          /\ text[i] = "\n" /\ text[i + 1] = "\n" /\ text[i + 2] = "\n"

VowelTransitions(w) ==
    LET lw == Lower(w)
    IN  {i \in DOMAIN lw : lw[i] \in Vowels /\ (i = 1 \/ lw[i - 1] \notin Vowels)}

EndsInE(w) == Len(w) > 0 /\ Lower(w)[Len(w)] = "e"

\* C10: _count_syllables returns max(1, T - E): T the non-vowel-to-vowel
\* transitions of the lower-cased word (vowels a e i o u y), E = 1 if it ends
\* in "e" and 0 otherwise; never below 1, and "the" gives 1.
C10_SyllablesAreMaxOneTMinusE ==
    Done =>
      /\ syllables = Max(1, Cardinality(VowelTransitions(word))
                               - (IF EndsInE(word) THEN 1 ELSE 0))
      /\ syllables >= 1
      /\ word = <<"t", "h", "e">> => syllables = 1

\* "the": one transition, less one for the final e, raised to 1
C10_Witness ==
    /\ Done
    /\ word = <<"t", "h", "e">>
    /\ Cardinality(VowelTransitions(word)) = 1
    /\ EndsInE(word)
    /\ syllables = 1

(***************************************************************************)
(* Properties of the readability block (specification Spec)                *)
(***************************************************************************)
\* 1000 * S * W times the Flesch formula, from the counts of the report
FormulaNumerator ==
    LET W == report.basic_stats.word_count
        S == report.basic_stats.sentence_count
        Y == report.readability_score.syllable_count
    IN  206835 * S * W - 1015 * W * W - 84600 * Y * S

FormulaDenominator ==
    1000 * report.basic_stats.word_count * report.basic_stats.sentence_count

BothNonEmpty ==
    report.basic_stats.word_count > 0 /\ report.basic_stats.sentence_count > 0

Abs(x) == IF x < 0 THEN -x ELSE x

TokenSyllables ==
    LET words == word_tokenize(Lower(text))
    IN  SumSeq([i \in DOMAIN words |-> count_syllables(words[i])])

\* C11 as claimed: with words and sentences the score is exactly
\* 206.835 - 1.015 * (words / sentences) - 84.6 * (syllables / words) clamped
\* to [0, 100], syllables being the sum of the words' counts; otherwise 0.
C11_ScoreIsClampedFormula ==
    Returned =>
      LET f == report.readability_score.flesch_score
          N == FormulaNumerator
          D == FormulaDenominator
      IN  /\ report.readability_score.syllable_count = TokenSyllables
          /\ ~BothNonEmpty => f = 0
          /\ BothNonEmpty =>
                IF N < 0 THEN f = 0
                ELSE IF N > 100 * D THEN f = 1000
                ELSE f * D = 10 * N

\* C11 amended: the reported score is that clamped value rounded to one
\* decimal place.
C11_ScoreIsRoundedClampedFormula ==
    Returned =>
      LET f == report.readability_score.flesch_score
          N == FormulaNumerator
          D == FormulaDenominator
      IN  /\ report.readability_score.syllable_count = TokenSyllables
          /\ ~BothNonEmpty => f = 0
          /\ BothNonEmpty =>
                IF N < 0 THEN f = 0
                ELSE IF N > 100 * D THEN f = 1000
                ELSE 2 * Abs(10 * N - f * D) <= D

\* a score strictly inside the range that the rounding changed
C11_Witness ==
    /\ Returned
    /\ BothNonEmpty
    /\ FormulaNumerator > 0
    /\ FormulaNumerator < 100 * FormulaDenominator
    /\ report.readability_score.flesch_score * FormulaDenominator
          # 10 * FormulaNumerator
    /\ report.basic_stats.sentence_count > 1

\* the first label whose threshold the reported score (in tenths) reaches
LevelOfReported(f) ==
    IF f >= 900 THEN "very_easy"
    ELSE IF f >= 800 THEN "easy"
    ELSE IF f >= 700 THEN "fairly_easy"
    ELSE IF f >= 600 THEN "standard"
    ELSE IF f >= 500 THEN "fairly_difficult"
    ELSE IF f >= 300 THEN "difficult"
    ELSE "very_difficult"

\* C12: readability_level is the first label matching the reported
\* flesch_score, thresholds 90, 80, 70, 60, 50, 30 taken top-down; a reported
\* 90.0 is never labelled "easy".
C12_LevelMatchesReportedScore ==
    Returned =>
      report.readability_score.readability_level
          = LevelOfReported(report.readability_score.flesch_score)

(***************************************************************************)
(* Properties of a call with failing steps (specification FaultSpec)       *)
(***************************************************************************)
\* the report of the same call with no step failing
Unfailed ==
    analyze_text(text, EnglishStopWords, SeededDetector, lang_oracle,
                 sentiment_oracle, lang_oracle)

\* C13: when a step inside the readability computation raises (and no step
\* outside it does), nothing propagates: analyze_text returns, its
\* readability block is the fallback (flesch_score 0, the 'could not
\* compute' label, syllable_count 0), and every other block is what the call
\* gives when nothing fails.
C13_ReadabilityFailureDegrades ==
    (Done /\ "readability" \in fault /\ fault \cap UnguardedSteps = {}) =>
      /\ ~raised
      /\ report.readability_score.flesch_score = 0
      /\ report.readability_score.readability_level = "could_not_compute"
      /\ report.readability_score.syllable_count = 0
      /\ \A b \in DOMAIN Unfailed \ {"readability_score"} :
             report[b] = Unfailed[b]

\* a document that scores above 0 is analysed while the readability step fails
C13_Witness ==
    /\ Done
    /\ fault = {"readability"}
    /\ ~raised
    /\ text = CatsDogs
    /\ Unfailed.readability_score.flesch_score > 0
    /\ report.readability_score = ReadabilityFallback
(***************************************************************************)
(* Properties of the language and sentiment blocks (specification Spec)    *)
(***************************************************************************)
MetricBlocks ==
    {"basic_stats", "readability_score", "word_frequency",
     "sentence_analysis", "character_analysis"}

\* the report of the same document when both libraries answer
WithWorkingOracle ==
    analyze_text(text, EnglishStopWords, SeededDetector, "en",
                 NeutralSentiment, "en")

OracleFailed == lang_oracle = "raise" \/ sentiment_oracle.raises

\* C14: when language detection or sentiment scoring raises, analyze_text
\* still returns: the language block is code 'unknown' with the 'could not
\* detect' name, the sentiment block is polarity 0, subjectivity 0 and
\* polarity_percentage 50 (what the formula gives for polarity 0), and the
\* five metric blocks are those of a call with working libraries.
C14_OracleFailureDegrades ==
    (Done /\ OracleFailed) =>
      /\ ~raised
      /\ lang_oracle = "raise" =>
            /\ report.language_detection.detected_language = "unknown"
            /\ report.language_detection.language_name = <<"not_detected">>
      /\ sentiment_oracle.raises =>
            /\ report.sentiment_analysis.polarity = 0
            /\ report.sentiment_analysis.subjectivity = 0
            /\ report.sentiment_analysis.polarity_percentage = 500
            /\ report.sentiment_analysis.polarity_percentage
                   = Round((0 + 10000) * 50, 1000)
      /\ \A b \in MetricBlocks : report[b] = WithWorkingOracle[b]

\* both libraries fail on a document with words and sentences
C14_Witness ==
    /\ Returned
    /\ lang_oracle = "raise"
    /\ sentiment_oracle.raises
    /\ text = CatsDogs
    /\ report.basic_stats.word_count > 0
    /\ report.language_detection.detected_language = "unknown"

\* the reported polarity, in thousandths, against the thresholds 0.1 and -0.1
LabelOfReported(p) ==
    IF p > 100 THEN "positive"
    ELSE IF p < -100 THEN "negative"
    ELSE "neutral"

\* C15: in every sentiment block the label agrees with the reported
\* polarity: positive iff polarity > 0.1, negative iff polarity < -0.1,
\* neutral otherwise (a reported 0.1, -0.1 or 0 included).
C15_LabelMatchesReportedPolarity ==
    Returned =>
      report.sentiment_analysis.sentiment
          = LabelOfReported(report.sentiment_analysis.polarity)
(***************************************************************************)
(* Properties of the frequency and sentence blocks (specification Spec)    *)
(***************************************************************************)
\* the positions of the tokens that are all letters and not stop words
Countable(tokens) ==
    {i \in DOMAIN tokens :
        /\ tokens[i] # <<>>
        /\ \A k \in DOMAIN tokens[i] : IsAlphaChar(tokens[i][k])
        /\ tokens[i] \notin EnglishStopWords}

NonIncreasing(pairs) ==
    \A i, j \in DOMAIN pairs : i < j => pairs[i][2] >= pairs[j][2]

DistinctKeys(pairs) ==
    \A i, j \in DOMAIN pairs : i # j => pairs[i][1] # pairs[j][1]

SumOfCounts(pairs) == SumSeq([i \in DOMAIN pairs |-> pairs[i][2]])

\* C16: the word-frequency block counts only the tokens that are purely
\* alphabetic and not stop words: unique_words is the number of distinct
\* such tokens, total_words_analyzed the number of their occurrences (the
\* sum of the per-word counts), and most_common_words holds
\* min(10, unique_words) pairs of distinct words in non-increasing count
\* order, each with the exact number of occurrences of its word.
C16_WordFrequencyCounts ==
    Returned =>
      LET wf        == report.word_frequency
          mc        == wf.most_common_words
          tokens    == word_tokenize(Lower(text))
          countable == Countable(tokens)
          words     == {tokens[i] : i \in countable}
          count     == [w \in words |->
                           Cardinality({k \in countable : tokens[k] = w})]
          listed    == {mc[i][1] : i \in DOMAIN mc}
      IN  /\ wf.unique_words = Cardinality(words)
          /\ wf.total_words_analyzed = Cardinality(countable)
          /\ Len(mc) = Min(10, wf.unique_words)
          /\ DistinctKeys(mc)
          /\ NonIncreasing(mc)
          /\ \A i \in DOMAIN mc :
                mc[i][1] \in words /\ mc[i][2] = count[mc[i][1]]
          /\ \A w \in words \ listed :
                \A i \in DOMAIN mc : mc[i][2] >= count[w]
          /\ SumOfCounts(mc) <= wf.total_words_analyzed
          /\ wf.unique_words <= 10 => SumOfCounts(mc) = wf.total_words_analyzed

\* more than ten countable words beside a stop word and a number
C16_Witness ==
    /\ Returned
    /\ report.word_frequency.unique_words > 10
    /\ LET tokens == word_tokenize(Lower(text))
       IN  /\ \E i \in DOMAIN tokens : tokens[i] \in EnglishStopWords
           /\ \E i \in DOMAIN tokens : \E k \in DOMAIN tokens[i] :
                  ~IsAlphaChar(tokens[i][k])
           /\ report.word_frequency.total_words_analyzed < Len(tokens)

\* the positions of the alphabetic characters of the document
LetterPositions == {i \in DOMAIN text : IsAlphaChar(text[i])}

FoldedLetters == {LowerChar(text[i]) : i \in LetterPositions}

FirstPosition(c) ==
    CHOOSE i \in LetterPositions :
        /\ LowerChar(text[i]) = c
        /\ \A j \in LetterPositions : LowerChar(text[j]) = c => i <= j

\* C17: the character block counts only alphabetic characters, case-folded:
\* letter_distribution maps each folded letter to its number of
\* occurrences, total_letters is the sum of the mapping, unique_letters its
\* number of keys, and most_common_letters is its top 10 in non-increasing
\* count order, ties in order of first occurrence in the text.
C17_CharacterCounts ==
    Returned =>
      LET ca == report.character_analysis
          ld == ca.letter_distribution
          mc == ca.most_common_letters
          count(c) == Cardinality({i \in LetterPositions : LowerChar(text[i]) = c})
      IN  /\ DistinctKeys(ld)
          /\ {ld[i][1] : i \in DOMAIN ld} = FoldedLetters
          /\ \A i \in DOMAIN ld : ld[i][2] = count(ld[i][1])
          /\ ca.total_letters = SumOfCounts(ld)
          /\ ca.total_letters = Cardinality(LetterPositions)
          /\ ca.unique_letters = Len(ld)
          /\ Len(mc) = Min(10, ca.unique_letters)
          /\ DistinctKeys(mc)
          /\ NonIncreasing(mc)
          /\ \A i \in DOMAIN mc : \E j \in DOMAIN ld : mc[i] = ld[j]
          /\ \A i, j \in DOMAIN mc :
                (i < j /\ mc[i][2] = mc[j][2]) =>
                    FirstPosition(mc[i][1]) < FirstPosition(mc[j][1])
          /\ \A c \in FoldedLetters :
                (\A i \in DOMAIN mc : mc[i][1] # c) =>
                    \A i \in DOMAIN mc :
                        \/ mc[i][2] > count(c)
                        \/ /\ mc[i][2] = count(c)
                           /\ FirstPosition(mc[i][1]) < FirstPosition(c)

\* more than ten letters, one of them in both cases, and a tie in the ranking
C17_Witness ==
    /\ Returned
    /\ report.character_analysis.unique_letters > 10
    /\ \E i, j \in LetterPositions :
           text[i] # text[j] /\ LowerChar(text[i]) = LowerChar(text[j])
    /\ \E i \in DOMAIN text : ~IsAlphaChar(text[i])
    /\ LET mc == report.character_analysis.most_common_letters
       IN  \E i \in 1..(Len(mc) - 1) : mc[i][2] = mc[i + 1][2]

\* C18: for a text with at least one sentence, sentence_lengths has one
\* entry per sentence in document order (the number of tokens of that
\* sentence), shortest_sentence and longest_sentence are its minimum and
\* maximum, average_sentence_length is its arithmetic mean, and
\* shortest_sentence <= average_sentence_length <= longest_sentence.
C18_SentenceLengths ==
    (Returned /\ report.basic_stats.sentence_count >= 1) =>
      LET sa        == report.sentence_analysis
          sl        == sa.sentence_lengths
          avg       == sa.average_sentence_length
          sentences == sent_tokenize(text)
      IN  /\ Len(sl) = report.basic_stats.sentence_count
          /\ Len(sl) = Len(sentences)
          /\ \A i \in DOMAIN sl : sl[i] = Len(word_tokenize(sentences[i]))
          /\ \E i \in DOMAIN sl : sa.shortest_sentence = sl[i]
          /\ \A i \in DOMAIN sl : sa.shortest_sentence <= sl[i]
          /\ \E i \in DOMAIN sl : sa.longest_sentence = sl[i]
          /\ \A i \in DOMAIN sl : sa.longest_sentence >= sl[i]
          /\ avg.den > 0
          /\ avg.num * Len(sl) = SumSeq(sl) * avg.den
          /\ sa.shortest_sentence * avg.den <= avg.num
          /\ avg.num <= sa.longest_sentence * avg.den

\* three sentences of different lengths, the first not the shortest, and a
\* mean that is not a whole number
C18_Witness ==
    /\ Returned
    /\ LET sa == report.sentence_analysis
           sl == sa.sentence_lengths
       IN  /\ Len(sl) >= 3
           /\ sa.shortest_sentence < sl[1]
           /\ sa.shortest_sentence < sa.longest_sentence
           /\ SumSeq(sl) % Len(sl) # 0
(***************************************************************************)
(* Properties of concurrent calls (specification ConcSpec)                 *)
(***************************************************************************)
\* what a call on document d alone returns
Sequential(d) ==
    analyze_text(d, EnglishStopWords, SeededDetector, UsualLanguage(d),
                 NeutralSentiment, UsualLanguage(d))

\* C19: calls by several callers on the one cached analyzer, interleaved in
\* any way and taking no lock, each return the report a call on that
\* document alone returns, and no call changes the state the calls share
\* (the analyzer's stop words, the detector's seed).
C19_ConcurrentCallsMatchSequential ==
    /\ \A c \in Callers :
          /\ threads[c].status # "raised"
          /\ threads[c].status = "returned" =>
                threads[c].results = Sequential(threads[c].doc)
    /\ stop_words = [i \in Instances |-> EnglishStopWords]
    /\ detector_seed = SeededDetector

\* both callers have returned, each ran while the other was inside its call,
\* and their documents differ but have a counted word in common
C19_Witness ==
    /\ \A c \in Callers :
          threads[c].status = "returned" /\ threads[c].overlapped
    /\ threads["first"].doc # threads["second"].doc
    /\ \E i \in DOMAIN threads["first"].results.word_frequency.most_common_words :
       \E j \in DOMAIN threads["second"].results.word_frequency.most_common_words :
          threads["first"].results.word_frequency.most_common_words[i][1]
              = threads["second"].results.word_frequency.most_common_words[j][1]
(***************************************************************************)
(* Properties of the stored records (specification DbSpec)                 *)
(***************************************************************************)
\* the saves that returned id before call k and were not deleted since
LiveSaves(k, id) ==
    {j \in 1..(k - 1) :
        /\ history[j].op = "save"
        /\ history[j].result = id
        /\ \A m \in (j + 1)..(k - 1) :
               ~(history[m].op = "delete" /\ history[m].id = id)}

\* C20: after save_analysis_result(text, report, file_name) has returned id
\* and until that id is deleted, get_analysis_by_id(id) returns a record
\* whose text_content, file_name and seven blocks equal what was saved,
\* whatever was saved or deleted under other ids in between; for an id
\* never saved, or deleted, it returns None.
C20_StorageRoundTrip ==
    \A k \in DOMAIN history :
        history[k].op = "get" =>
            LET got  == history[k].result
                live == LiveSaves(k, history[k].id)
            IN  IF live = {} THEN got = None
                ELSE \A j \in live :
                        /\ got.found
                        /\ got.record.text_content = history[j].text_content
                        /\ got.record.file_name = history[j].file_name
                        /\ \A b \in BlockColumns :
                               got.record[b] = history[j].results[b]
\* the ids saved before call k and not deleted since
StoredAt(k) ==
    {history[j].result : j \in {i \in 1..(k - 1) :
        /\ history[i].op = "save"
        /\ LiveSaves(k, history[i].result) # {}}}

\* C21: get_all_analyses returns exactly the records stored at that
\* moment, each once, the later saved before the earlier saved, also when
\* two records were saved within the same clock second.
C21_ListedByRecency ==
    \A k \in DOMAIN history :
        history[k].op = "list" =>
            LET df == history[k].result
            IN  /\ {df[i].id : i \in DOMAIN df} = StoredAt(k)
                /\ Len(df) = Cardinality(StoredAt(k))
                /\ \A i, j \in DOMAIN df :
                       df[i].id > df[j].id => i < j
\* the call this step appends to history
NewCall == history'[Len(history')]

IsCall(name) == Len(history') = Len(history) + 1 /\ NewCall.op = name

\* what delete_analysis does in one step
DeleteFrame ==
    IsCall("delete") =>
        IF \E r \in rows : r.id = NewCall.id
        THEN /\ NewCall.result = TRUE
             /\ \A r \in rows : r.id # NewCall.id => r \in rows'
             /\ \A r \in rows' : r \in rows /\ r.id # NewCall.id
             /\ Cardinality(rows') = Cardinality(rows) - 1
        ELSE /\ NewCall.result = FALSE
             /\ rows' = rows
             /\ last_id' = last_id

\* C22: delete_analysis(id) removes exactly the record with that id and
\* returns True when it exists, every other record staying as it was; when
\* no record has that id it returns False and the store stays as it was.
C22_DeleteRemovesExactlyOne == [][DeleteFrame]_vars

\* a delete has returned True and a record saved before it is still stored
C22_Witness ==
    /\ \E k \in DOMAIN history :
          /\ history[k].op = "delete"
          /\ history[k].result = TRUE
          /\ \E j \in 1..(k - 1) :
                /\ history[j].op = "save"
                /\ \E r \in rows : r.id = history[j].result
    /\ rows # {}
(***************************************************************************)
(* Properties of the URLAnalyzer (specifications UrlSpec and CleanSpec)    *)
(***************************************************************************)
HasScheme(u) == StartsWith(u, HttpPrefix) \/ StartsWith(u, HttpsPrefix)

Normalized(t) ==
    /\ t # <<>> => (t[1] \notin Whitespace /\ t[Len(t)] \notin Whitespace)
    /\ \A i \in 1..(Len(t) - 1) :
          ~(t[i] \in Whitespace /\ t[i + 1] \in Whitespace)

\* C24: the output of clean_text has no leading or trailing white space and
\* no two consecutive white-space characters, and cleaning it again changes
\* nothing, also when a removed character stood between two spaces.
C24_CleanTextNormalizes ==
    /\ \A i \in DOMAIN cleaned : Normalized(cleaned[i])
    /\ \A i \in 1..(Len(cleaned) - 1) : cleaned[i + 1] = cleaned[i]
(***************************************************************************)
(* Properties of concurrent saves (specification SessSpec)                 *)
(***************************************************************************)
SaveCalls == {k \in DOMAIN history : history[k].op = "save"}

\* the id a save returned is the id of the record that call inserted
ReturnsOwnId ==
    \A k \in SaveCalls :
        \A r \in rows :
            r.id = history[k].result =>
                r.text_content = history[k].text_content

\* no id is returned twice, whatever was deleted in between
NeverReused ==
    \A j, k \in SaveCalls : j # k => history[j].result # history[k].result

\* C25 as claimed: over any interleaving of saves and deletes, saves of
\* concurrent sessions included, every save returns the id of the record
\* it inserted, that id is strictly greater than every id returned
\* earlier, and no id is used again after its record is deleted.
C25_IdsIncreaseInReturnOrder ==
    /\ ReturnsOwnId
    /\ NeverReused
    /\ \A j, k \in SaveCalls :
          j < k => history[j].result < history[k].result

\* C25 amended: every save returns the id of the record it inserted, that
\* id is strictly greater than every id returned by a call that had
\* returned before this call inserted its record, and no id is used again
\* after its record is deleted.
C25_IdsIncreaseInInsertOrder ==
    /\ ReturnsOwnId
    /\ NeverReused
    /\ \A j, k \in SaveCalls :
          j <= history[k].before => history[j].result < history[k].result

\* two sessions were inside save_analysis_result at once with different
\* texts, the one that inserted later returned first, and a record was
\* deleted before a later save
C25_Witness ==
    /\ \E j, k \in SaveCalls :
          /\ j < k
          /\ history[j].session # history[k].session
          /\ history[j].text_content # history[k].text_content
          /\ history[j].result > history[k].result
    /\ \E d \in DOMAIN history :
          history[d].op = "delete" /\ history[d].result = TRUE
(***************************************************************************)
(* Properties of the exports (specification ExportSpec)                    *)
(***************************************************************************)
\* the report saved under an id
SavedReport(id) ==
    history[CHOOSE j \in DOMAIN history :
                history[j].op = "save" /\ history[j].result = id].results

\* the rows or sections of an export that returned
Rendered(call) ==
    IF call.op = "csv" THEN call.result.rows ELSE call.result.sections

\* C26: every field the CSV and text exporters read from a stored block is
\* a field the engine writes under that name, so every exported value is
\* the engine's value and not a default; in particular the text export
\* shows the detected language code of each record beside its name.
C26_ExportsReadEngineFields ==
    \A k \in DOMAIN history :
        (history[k].op \in {"csv", "txt"} /\ ~history[k].result.raised) =>
            LET out == Rendered(history[k])
            IN  \A i \in DOMAIN out :
                    LET report_i == SavedReport(out[i].id)
                    IN  /\ \A p \in DOMAIN out[i].values :
                              p[2] \in DOMAIN report_i[p[1]]
                        /\ history[k].op = "txt" =>
                              out[i].values[<<"language_detection",
                                              "language_code">>]
                                  = report_i.language_detection.detected_language
\* what the export of all records renders from the table of call k
AllRendered(call) ==
    LET order == CHOOSE o \in OrdersOf(call.table) : TRUE
    IN  IF call.op = "csv"
        THEN export_to_csv(call.table, <<>>, order).rows
        ELSE export_to_txt(call.table, <<>>, order).sections

\* C27: called with a non-empty list of ids, export_to_csv and
\* export_to_txt return without raising and render exactly the listed
\* records that are stored, each as the export of all records renders it;
\* a listed id that is not stored is skipped.
C27_ListedExportsRender ==
    \A k \in DOMAIN history :
        (history[k].op \in {"csv", "txt"} /\ history[k].ids # <<>>) =>
            /\ ~history[k].result.raised
            /\ LET out    == Rendered(history[k])
                   all    == AllRendered(history[k])
                   stored == {r.id : r \in history[k].table}
                   asked  == {history[k].ids[i] : i \in DOMAIN history[k].ids}
               IN  /\ {out[i].id : i \in DOMAIN out} = asked \cap stored
                   /\ \A i \in DOMAIN out :
                          \E j \in DOMAIN all : out[i] = all[j]
====
